---- MODULE Spec2Model ----
(***************************************************************************)
(* A model of the DWARF manager of src/debugger/DWARFManager.cpp: the      *)
(* process-wide unit table (PtrCU / NbCU / LibDwarf), its build pass       *)
(* (DWARFManager_InitDMI), its teardown (DWARFManager_CloseDMI), the type  *)
(* resolver (DWARFManager_InitInfosVariable) and the read-only queries.    *)
(*                                                                         *)
(* Conventions                                                             *)
(*   - a C string is a sequence of text pieces; "" is << >>; strcat is \o  *)
(*   - a char* (or any pointer) is << >> when NULL and << x >> otherwise   *)
(*   - C arrays are 0-based, sequences 1-based: PtrCU[i] of the code is    *)
(*     PtrCU[i + 1] here                                                   *)
(*   - a type-tag bitmask is the set of its bits                           *)
(***************************************************************************)
EXTENDS Integers, Sequences, FiniteSets, TLC

VARIABLES
    win32,            \* the build: TRUE when _WIN32 is defined
    session,          \* the debug information of the loaded executable
    LibDwarf,         \* uint32_t LibDwarf
    NbCU,             \* uint32_t NbCU
    PtrCU,            \* the unit table PtrCU points to (its content)
    PtrCUState,       \* "null" | "live" | "freed": what the pointer PtrCU is
    ListSearchPaths,  \* char **ListSearchPaths
    NbSearchPaths,    \* size_t NbSearchPaths
    heap,             \* number of live blocks obtained from calloc/realloc
    fault,            \* "none", or the undefined behaviour that has occurred
    ret,              \* the last call: [fn, adr, idx, val]
    loads,            \* number of successful loads so far
    resetRun,         \* consecutive Reset calls since the last successful load
    firstGlobals      \* flat global list as queried after the first load

vars == << win32, session, LibDwarf, NbCU, PtrCU, PtrCUState, ListSearchPaths,
           NbSearchPaths, heap, fault, ret, loads, resetRun, firstGlobals >>

----------------------------------------------------------------------------
\* Program constants

TypeTag_structure == 1
TypeTag_pointer == 2
TypeTag_subrange == 4
TypeTag_arraytype == 8
TypeTag_consttype == 16
TypeTag_typedef == 32
TypeTag_enumeration_type == 64
TypeTag_subroutine_type == 128
TypeTag_union == 256

\* A 32-bit object (uint32_t NbCU, the int Offset of a Variable) is kept as
\* its bit pattern read as a two's complement number: -1 is 0xFFFFFFFF.
U32Dec(x) == x - 1
U32IsZero(x) == x = 0
\* i < n for a small non-negative i and the unsigned value of pattern n
U32Less(i, n) == n < 0 \/ i < n

\* Tag values of dwarf.h used by the queries' Tag parameter
DW_TAG_subprogram == 46

\* libdwarf's return codes, and the unit status of DWARFManager.h
DW_DLV_OK == "DW_DLV_OK"
DW_DLV_NO_ENTRY == "DW_DLV_NO_ENTRY"
DW_DLV_ERROR == "DW_DLV_ERROR"

DWARFSTATUS_OK == "DWARFSTATUS_OK"
DWARFSTATUS_NOFILE == "DWARFSTATUS_NOFILE"
DWARFSTATUS_OUTDATEDFILE == "DWARFSTATUS_OUTDATEDFILE"
DWARFSTATUS_NOFILEINFO == "DWARFSTATUS_NOFILEINFO"

----------------------------------------------------------------------------
\* Pointers and strings

NULL == << >>
Ptr(x) == << x >>
Deref(p) == p[1]

\* Sum of a sequence of numbers
RECURSIVE SumSeq(_)
SumSeq(s) == IF s = << >> THEN 0 ELSE Head(s) + SumSeq(Tail(s))

\* Concatenation of a sequence of sequences
RECURSIVE Flatten(_)
Flatten(ss) == IF ss = << >> THEN << >> ELSE Head(ss) \o Flatten(Tail(ss))

----------------------------------------------------------------------------
\* Records of the model (the structs of the code)

\* StructureMembersStruct
StructureMember(name, typeOffset, location) ==
    [PtrName |-> name, TypeOffset |-> typeOffset, DataMemberLocation |-> location]

\* BaseTypeStruct, as memset to 0 and filled from a type DIE
BaseType(tag, offset, typeOffset, byteSize, encoding, name, members) ==
    [Tag |-> tag, Offset |-> offset, TypeOffset |-> typeOffset,
     ByteSize |-> byteSize, Encoding |-> encoding, PtrName |-> name,
     PtrStructureMembers |-> members]

\* VariablesStruct, as memset to 0 and filled from a variable DIE.  Addr is
\* the storage of the union {size_t Addr; int Offset}, as a 32-bit pattern.  Two fields are not in
\* the struct: ub records that resolving the variable passed a NULL name to
\* strcat, hang that the resolver's scan loop never ends.  AddrHigh is the
\* upper half of Addr where size_t has 64 bits (0 or -1, all bits set); int
\* Offset lies over the lower half.
Variable(op, addr, name, typeOffset) ==
    [Op |-> op, Addr |-> addr, AddrHigh |-> 0,
     PtrName |-> name, TypeOffset |-> typeOffset,
     TypeByteSize |-> 0, TypeTag |-> {}, TypeEncoding |-> 0,
     PtrTypeName |-> NULL, NbTabVariables |-> 0, TabVariables |-> NULL,
     ub |-> FALSE, hang |-> FALSE]

\* The int view of the union's storage
OffsetOf(v) == v.Addr

----------------------------------------------------------------------------
\* DWARFManager_InitInfosVariable

DW_TAG_base_type == "DW_TAG_base_type"
DW_TAG_typedef == "DW_TAG_typedef"
DW_TAG_union_type == "DW_TAG_union_type"
DW_TAG_structure_type == "DW_TAG_structure_type"
DW_TAG_pointer_type == "DW_TAG_pointer_type"
DW_TAG_const_type == "DW_TAG_const_type"
DW_TAG_array_type == "DW_TAG_array_type"
DW_TAG_subrange_type == "DW_TAG_subrange_type"
DW_TAG_subroutine_type == "DW_TAG_subroutine_type"
DW_TAG_enumeration_type == "DW_TAG_enumeration_type"

TypeDieTags ==
    { DW_TAG_base_type, DW_TAG_typedef, DW_TAG_union_type, DW_TAG_structure_type,
      DW_TAG_pointer_type, DW_TAG_const_type, DW_TAG_array_type,
      DW_TAG_subrange_type, DW_TAG_subroutine_type, DW_TAG_enumeration_type }

\* A resolver whose strcat appends nothing
StrCatNothing(v, src) == v

\* strcat(PtrVariables->PtrTypeName, src) with a literal or non-NULL src
StrCat(v, src) == [v EXCEPT !.PtrTypeName = Ptr(Deref(@) \o src)]

\* strcat(PtrVariables->PtrTypeName, PtrName): undefined when PtrName is NULL
StrCatName(v, PtrName) ==
    IF PtrName = NULL THEN [v EXCEPT !.ub = TRUE] ELSE StrCat(v, Deref(PtrName))

OrTag(v, bit) == [v EXCEPT !.TypeTag = @ \cup {bit}]

\* case DW_TAG_structure_type / DW_TAG_union_type, up to the TypeOffset test
StructStage(v, T) ==
    LET v1 == OrTag(v, IF T.Tag = DW_TAG_structure_type
                       THEN TypeTag_structure ELSE TypeTag_union)
    IN IF TypeTag_typedef \notin v1.TypeTag /\ T.PtrName # NULL
       THEN StrCat(v1, Deref(T.PtrName))
       ELSE v1

\* case DW_TAG_enumeration_type
EnumStage(v, T) ==
    LET v1 == [OrTag(v, TypeTag_enumeration_type) EXCEPT
                  !.TypeByteSize = T.ByteSize, !.TypeEncoding = T.Encoding]
    IN IF v1.TypeEncoding = 0 /\ v1.TypeByteSize = 4
       THEN [v1 EXCEPT !.TypeEncoding = 7]
       ELSE v1

\* case DW_TAG_base_type
BaseStage(v, T) ==
    LET v1 == IF TypeTag_typedef \notin v.TypeTag THEN StrCatName(v, T.PtrName) ELSE v
        v2 == IF TypeTag_pointer \in v1.TypeTag
              THEN StrCat(v1, << "* " >>)
              ELSE [v1 EXCEPT !.TypeByteSize = T.ByteSize, !.TypeEncoding = T.Encoding]
    IN IF TypeTag_arraytype \in v2.TypeTag THEN StrCat(v2, << "[]" >>) ELSE v2

\* A typedef case that adds the name of every typedef it meets
TypedefStageEvery(v, T) == StrCatName(OrTag(v, TypeTag_typedef), T.PtrName)

\* case DW_TAG_typedef, up to the TypeOffset test
TypedefStage(v, T) ==
    IF TypeTag_typedef \notin v.TypeTag
    THEN StrCatName(OrTag(v, TypeTag_typedef), T.PtrName)
    ELSE v

\* case DW_TAG_pointer_type, up to the TypeOffset test
PointerStage(v, T) ==
    [OrTag(v, TypeTag_pointer) EXCEPT !.TypeByteSize = T.ByteSize, !.TypeEncoding = 16]

RECURSIVE InitInfosVariable(_, _), ScanTypes(_, _, _, _, _), FillMembers(_, _, _, _)

\* A nested Variable whose Op, not its Offset, takes the member's location
MemberVariableLocated(m) == Variable(m.DataMemberLocation, 0, m.PtrName, m.TypeOffset)

\* A nested Variable that leaves its Offset at 0
MemberVariableAtZero(m) == Variable(0, 0, m.PtrName, m.TypeOffset)

\* The nested Variable of a member, before it is resolved: calloc'ed, so Op
\* is 0, then PtrName, TypeOffset and Offset = (int)DataMemberLocation
MemberVariable(m) == Variable(0, m.DataMemberLocation, m.PtrName, m.TypeOffset)

\* The nested Variable of member i of struct/union record T, resolved
\* recursively, appended to PtrVariables->TabVariables
FillMembers(PtrTypes, v, T, i) ==
    IF i > Len(T.PtrStructureMembers) THEN v
    ELSE LET r == InitInfosVariable(PtrTypes, MemberVariable(T.PtrStructureMembers[i]))
         IN FillMembers(PtrTypes,
                [v EXCEPT !.TabVariables = Ptr(Deref(@) \o << r >>),
                          !.NbTabVariables = @ + 1,
                          !.ub = @ \/ r.ub, !.hang = @ \/ r.hang],
                T, i + 1)

\* A resolver that stops where the code starts the scan over
RestartNever(PtrTypes, v, TypeOffset, fuel) == v

\* j = -1 after TypeOffset was set to a non-zero offset: the scan starts over.
\* A walk of more records than the list holds has met an offset twice, and the
\* loop of the code then never ends (hang).
Restart(PtrTypes, v, TypeOffset, fuel) ==
    IF fuel = 0 THEN [v EXCEPT !.hang = TRUE]
    ELSE ScanTypes(PtrTypes, v, TypeOffset, 1, fuel - 1)

\* for (j ...; j < NbTypes; j++) if (TypeOffset == PtrTypes[j].Offset) switch (Tag)
ScanTypes(PtrTypes, v, TypeOffset, j, fuel) ==
    IF j > Len(PtrTypes) THEN v
    ELSE IF TypeOffset # PtrTypes[j].Offset
    THEN ScanTypes(PtrTypes, v, TypeOffset, j + 1, fuel)
    ELSE LET T == PtrTypes[j] IN
      CASE T.Tag = DW_TAG_subroutine_type ->
             ScanTypes(PtrTypes,
                       StrCat(OrTag(v, TypeTag_subroutine_type), << " (* ) ()" >>),
                       TypeOffset, j + 1, fuel)
        [] T.Tag \in {DW_TAG_structure_type, DW_TAG_union_type} ->
             LET v1 == StructStage(v, T) IN
             IF T.TypeOffset # 0 THEN Restart(PtrTypes, v1, T.TypeOffset, fuel)
             ELSE LET v2 == IF TypeTag_pointer \in v1.TypeTag
                            THEN StrCat(v1, << "* " >>) ELSE v1
                      v3 == IF v2.Op # 0
                            THEN FillMembers(PtrTypes,
                                             [v2 EXCEPT !.TabVariables = Ptr(<< >>)],
                                             T, 1)
                            ELSE v2
                  IN ScanTypes(PtrTypes, v3, 0, j + 1, fuel)
        [] T.Tag = DW_TAG_pointer_type ->
             LET v1 == PointerStage(v, T) IN
             IF T.TypeOffset = 0
             THEN ScanTypes(PtrTypes, StrCat(v1, << "void* " >>), 0, j + 1, fuel)
             ELSE Restart(PtrTypes, v1, T.TypeOffset, fuel)
        [] T.Tag = DW_TAG_enumeration_type ->
             ScanTypes(PtrTypes, EnumStage(v, T), TypeOffset, j + 1, fuel)
        [] T.Tag = DW_TAG_typedef ->
             LET v1 == TypedefStage(v, T) IN
             IF T.TypeOffset # 0 THEN Restart(PtrTypes, v1, T.TypeOffset, fuel)
             ELSE ScanTypes(PtrTypes, v1, 0, j + 1, fuel)
        [] T.Tag = DW_TAG_subrange_type ->
             ScanTypes(PtrTypes, OrTag(v, TypeTag_subrange), TypeOffset, j + 1, fuel)
        [] T.Tag = DW_TAG_array_type ->
             LET v1 == OrTag(v, TypeTag_arraytype) IN
             IF T.TypeOffset # 0 THEN Restart(PtrTypes, v1, T.TypeOffset, fuel)
             ELSE ScanTypes(PtrTypes, v1, 0, j + 1, fuel)
        [] T.Tag = DW_TAG_const_type ->
             LET v1 == StrCat(OrTag(v, TypeTag_consttype), << "const " >>) IN
             IF T.TypeOffset # 0 THEN Restart(PtrTypes, v1, T.TypeOffset, fuel)
             ELSE ScanTypes(PtrTypes, v1, 0, j + 1, fuel)
        [] T.Tag = DW_TAG_base_type ->
             ScanTypes(PtrTypes, BaseStage(v, T), TypeOffset, j + 1, fuel)
        [] OTHER -> ScanTypes(PtrTypes, v, TypeOffset, j + 1, fuel)

\* PtrTypes is PtrCU[NbCU].PtrTypes, the type list of the unit being built
InitInfosVariable(PtrTypes, PtrVariables) ==
    ScanTypes(PtrTypes, [PtrVariables EXCEPT !.PtrTypeName = Ptr(<< >>)],
              PtrVariables.TypeOffset, 1, Len(PtrTypes))

----------------------------------------------------------------------------
\* The session: what the DWARF provider yields for the executable.  An
\* attribute that is absent, or whose read call fails, is << >>; a present one
\* is << value >>.  A DIE whose dwarf_attrlist call fails is handled by the
\* code like a DIE that is not there.

DW_TAG_variable == "DW_TAG_variable"
DW_TAG_formal_parameter == "DW_TAG_formal_parameter"
DW_TAG_member == "DW_TAG_member"
DW_TAG_subprogram_die == "DW_TAG_subprogram"
DW_TAG_lexical_block == "DW_TAG_lexical_block"

Die(tag, name, block, type, offset, low, high, line, size, enc, loc, kids) ==
    [tag |-> tag, name |-> name, block |-> block, type |-> type,
     offset |-> offset, low_pc |-> low, high_pc |-> high, decl_line |-> line,
     byte_size |-> size, encoding |-> enc, member_loc |-> loc, children |-> kids]

\* a variable or formal parameter DIE: DW_AT_name, DW_AT_location, DW_AT_type
VariableDie(tag, name, block, type) ==
    Die(tag, name, block, type, 0, << >>, << >>, << >>, << >>, << >>, << >>, << >>)

\* a member DIE: DW_AT_name, DW_AT_type, DW_AT_data_member_location
MemberDie(name, type, loc) ==
    Die(DW_TAG_member, name, NULL, type, 0, << >>, << >>, << >>, << >>, << >>, loc, << >>)

\* a type DIE at DIE offset `offset`
TypeDie(tag, offset, name, type, size, enc, members) ==
    Die(tag, name, NULL, type, offset, << >>, << >>, << >>, size, enc, << >>, members)

\* a subprogram DIE
SubprogramDie(name, low, high, line, kids) ==
    Die(DW_TAG_subprogram_die, name, NULL, << >>, 0, low, high, line, << >>, << >>, << >>, kids)

\* the value of an unsigned attribute, 0 (the memset value) when absent
AttrOr0(a) == IF a = << >> THEN 0 ELSE a[1]

----------------------------------------------------------------------------
\* LEB128.h (not part of the sources): the standard decodings, over the bytes
\* that follow the opcode

RECURSIVE ReadULEB128(_)
ReadULEB128(bytes) ==
    IF bytes = << >> THEN 0
    ELSE IF Head(bytes) < 128 THEN Head(bytes)
    ELSE (Head(bytes) - 128) + 128 * ReadULEB128(Tail(bytes))

RECURSIVE ReadLEB128(_)
ReadLEB128(bytes) ==
    IF bytes = << >> THEN 0
    ELSE IF Head(bytes) < 128
         THEN (IF Head(bytes) >= 64 THEN Head(bytes) - 128 ELSE Head(bytes))
    ELSE (Head(bytes) - 128) + 128 * ReadLEB128(Tail(bytes))

----------------------------------------------------------------------------
\* DWARFManager_InitDMI: one unit

\* (b1 << 24) + (b2 << 16) + (b3 << 8) + b4, an int: its 32-bit pattern
BigEndian32(b) ==
    (IF b[2] >= 128 THEN b[2] - 256 ELSE b[2]) * 16777216
        + b[3] * 65536 + b[4] * 256 + b[5]

\* The upper half of a size_t that is assigned the int x: the conversion
\* extends the sign where size_t has 64 bits (wide)
SignExtension(x, wide) == IF wide /\ x < 0 THEN -1 ELSE 0

\* case DW_AT_location of a unit-scope variable
GlobalLocation(v, block, wide) ==
    IF block = NULL THEN v
    ELSE IF Len(Deref(block)) = 5
    THEN [v EXCEPT !.Op = Deref(block)[1],
                   !.Addr = BigEndian32(Deref(block)),
                   !.AddrHigh = SignExtension(BigEndian32(Deref(block)), wide)]
    ELSE [v EXCEPT !.Op = Deref(block)[1]]

\* A decoding that reads every operand as unsigned
LocalLocationUnsigned(v, tag, block) ==
    IF block = NULL THEN v
    ELSE [v EXCEPT !.Op = Deref(block)[1],
                   !.Addr = IF Len(Deref(block)) \in 2..5
                            THEN ReadULEB128(Tail(Deref(block))) ELSE @]

\* case DW_AT_location of a subprogram's formal parameter or variable
LocalLocation(v, tag, block) ==
    IF block = NULL THEN v
    ELSE LET b == Deref(block) IN
         [v EXCEPT !.Op = b[1],
                   !.Addr = IF Len(b) \in 2..5
                            THEN (IF tag = DW_TAG_variable
                                  THEN ReadLEB128(Tail(b))
                                  ELSE ReadULEB128(Tail(b)))
                            ELSE @]

\* The VariablesStruct slot filled from the attributes of DIE d
GlobalSlot(d, wide) ==
    GlobalLocation(Variable(0, 0, d.name, AttrOr0(d.type)), d.block, wide)

LocalSlot(d) ==
    LocalLocation(Variable(0, 0, d.name, AttrOr0(d.type)), d.tag, d.block)

\* "Check variable's name validity" / "Check variable's memory address validity"
GlobalIsValid(v) == v.PtrName # NULL /\ v.Addr # 0

\* case DW_TAG_variable at unit scope: the slot is counted (NbVariables++)
\* only when valid; the table has been realloc'ed either way
WalkGlobalVariable(cu, d, wide) ==
    LET v == GlobalSlot(d, wide) IN
    [cu EXCEPT !.PtrVariables = IF GlobalIsValid(v) THEN Append(@, v) ELSE @,
               !.PtrVariablesSet = TRUE]

\* case DW_AT_data_member_location
MemberLocation(loc) ==
    IF loc = << >> THEN 0
    ELSE LET a == loc[1] IN
         CASE a.form = "udata" -> a.v
           [] a.form = "sdata" -> a.v
           [] OTHER -> IF Len(a.bytes) \in 2..4 THEN ReadULEB128(Tail(a.bytes)) ELSE 0

\* case DW_TAG_member
WalkMember(d) == StructureMember(d.name, AttrOr0(d.type), MemberLocation(d.member_loc))

RECURSIVE WalkMembers(_)
WalkMembers(kids) ==
    IF kids = << >> THEN << >>
    ELSE IF Head(kids).tag = DW_TAG_member
         THEN << WalkMember(Head(kids)) >> \o WalkMembers(Tail(kids))
         ELSE WalkMembers(Tail(kids))

\* case DW_TAG_base_type ... DW_TAG_enumeration_type
WalkType(cu, d) ==
    [cu EXCEPT !.PtrTypes = Append(@,
        BaseType(d.tag, d.offset, AttrOr0(d.type), AttrOr0(d.byte_size),
                 AttrOr0(d.encoding), d.name,
                 IF d.tag \in {DW_TAG_structure_type, DW_TAG_union_type}
                 THEN WalkMembers(d.children) ELSE << >>))]

\* The rows of the unit's used lines selected for a subprogram: the test uses
\* the locals return_lowpc and return_highpc of DWARFManager_InitDMI
LineInFrame(row, return_lowpc, return_highpc) ==
    row.StartPC >= return_lowpc /\ row.StartPC <= return_highpc

SubProgLines(cu, return_lowpc, return_highpc) ==
    IF cu.PtrUsedLinesSrc = NULL THEN << >>
    ELSE LET pick(r) == LineInFrame(r, return_lowpc, return_highpc)
             rows == SelectSeq(Deref(cu.PtrUsedLinesSrc), pick)
         IN [k \in 1..Len(rows) |->
                [Tag |-> 0, StartPC |-> rows[k].StartPC,
                 NumLineSrc |-> rows[k].NumLineSrc, PtrLineSrc |-> NULL]]

RECURSIVE WalkLocals(_)
WalkLocals(kids) ==
    IF kids = << >> THEN << >>
    ELSE IF Head(kids).tag \in {DW_TAG_formal_parameter, DW_TAG_variable}
         THEN << LocalSlot(Head(kids)) >> \o WalkLocals(Tail(kids))
         ELSE WalkLocals(Tail(kids))

\* case DW_TAG_subprogram.  w = [cu, lo, hi]: the unit being built and the
\* current values of return_lowpc / return_highpc
WalkSubprogram(w, d) ==
    LET lo == IF d.low_pc # << >> THEN d.low_pc[1] ELSE w.lo
        hi == IF d.high_pc # << >> THEN d.high_pc[1] ELSE w.hi
        sp == [Tag |-> DW_TAG_subprogram,
               NumLineSrc |-> AttrOr0(d.decl_line),
               StartPC |-> AttrOr0(d.low_pc),
               LowPC |-> AttrOr0(d.low_pc),
               HighPC |-> AttrOr0(d.high_pc),
               PtrLineSrc |-> NULL,
               PtrSubprogramName |-> d.name,
               PtrLinesSrc |-> SubProgLines(w.cu, lo, hi),
               PtrVariables |-> WalkLocals(d.children)]
    IN [cu |-> [w.cu EXCEPT !.PtrSubProgs = Append(@, sp)], lo |-> lo, hi |-> hi,
        wide |-> w.wide]

\* The loop over the unit's children
RECURSIVE WalkChildren(_, _)
WalkChildren(w, kids) ==
    IF kids = << >> THEN w
    ELSE LET d == Head(kids)
             w1 == CASE d.tag = DW_TAG_variable ->
                          [w EXCEPT !.cu = WalkGlobalVariable(w.cu, d, w.wide)]
                     [] d.tag \in TypeDieTags ->
                          [w EXCEPT !.cu = WalkType(w.cu, d)]
                     [] d.tag = DW_TAG_subprogram_die -> WalkSubprogram(w, d)
                     [] OTHER -> w
         IN WalkChildren(w1, Tail(kids))

\* A unit of the session: how far the read of the root DIE gets ("ok",
\* "no_die" when dwarf_siblingof fails, "no_tag" when dwarf_tag fails,
\* "other_tag" for a root that is no compile unit, "no_attrlist" when
\* dwarf_attrlist fails), the root DIE's attributes, the directories under
\* which the file system holds the unit's file and what it answers for the
\* file there (stat succeeds, its st_mtime is later than the executable's,
\* fopen succeeds, its text), the line table (NULL when dwarf_srclines fails)
\* and the children.  A string is a sequence of tokens: a separator "/" or
\* "\\", ":", ".", "..", or a name; a name of one letter is one character.
RootUnit(root, name, comp_dir, language, found, low, high, file, srclines, kids) ==
    [root |-> root, name |-> name, comp_dir |-> comp_dir, language |-> language,
     found |-> found, low_pc |-> low, high_pc |-> high, file |-> file,
     srclines |-> srclines, children |-> kids]

\* A unit that records the directory "dir" and the filename "name"
Unit(low, high, file, srclines, kids) ==
    RootUnit("ok", Ptr(<< "name" >>), Ptr(<< "dir" >>), << >>, { << "dir" >> },
             low, high, file, srclines, kids)

File(stat, newer, open, text) ==
    [stat |-> stat, newer |-> newer, open |-> open, text |-> text]

NoFile == File(FALSE, FALSE, FALSE, << >>)

\* What stat and fopen answer for the unit's file looked for in dir
FileAt(u, dir) == IF dir \in u.found THEN u.file ELSE NoFile

\* What they answer for the full filename: the file looked for in the unit's
\* directory, and nothing for a full filename that is the filename alone
FileOf(u, cu) ==
    IF cu.PtrFullFilename = cu.PtrSourceFilename THEN NoFile
    ELSE FileAt(u, Deref(cu.PtrSourceFileDirectory))

Row(addr, line) == [StartPC |-> addr, NumLineSrc |-> line, PtrLineSrc |-> NULL]

\* CUStruct after memset(PtrCU + NbCU, 0, sizeof(CUStruct)).  PtrVariablesSet
\* tells whether PtrVariables was realloc'ed (it is, even for a discarded
\* entry); ub is not in the struct: it records that building the unit passed
\* a NULL stream to fseek or read outside a block it allocated.  The tags are
\* kept by name, and NoTag is the Tag 0 that memset leaves.
NoTag == "0"

EmptyCU ==
    [Tag |-> NoTag, Language |-> 0, LowPC |-> 0, HighPC |-> 0,
     PtrSourceFilename |-> NULL, PtrSourceFileDirectory |-> NULL,
     PtrFullFilename |-> NULL, PtrLoadSrc |-> NULL,
     NbLinesLoadSrc |-> 0, PtrLinesLoadSrc |-> NULL,
     PtrSubProgs |-> << >>, PtrTypes |-> << >>,
     PtrVariables |-> << >>, PtrVariablesSet |-> FALSE,
     NbUsedLinesSrc |-> 0, PtrUsedLinesSrc |-> NULL, PtrUsedNumLines |-> NULL,
     Status |-> DWARFSTATUS_OK, ub |-> FALSE]

\* DWARFManager_ConformSlachesBackslashes
DWARFManager_ConformSlachesBackslashes(str, w32) ==
    [k \in 1..Len(str) |->
        IF w32 THEN (IF str[k] = "/" THEN "\\" ELSE str[k])
        ELSE (IF str[k] = "\\" THEN "/" ELSE str[k])]

\* The names of one lower-case letter
LowerCaseLetters == { "a", "b", "c" }

\* The separator of sprintf(..., "%s\\%s" or "%s/%s", ...)
Separator(w32) == IF w32 THEN "\\" ELSE "/"

\* "check if file exists in the search paths": the loop has no break, so the
\* last path that passes the test after fopen gives the directory.  With
\* _WIN32 the test is (!fopen_s(...)), without it (SrcFile == NULL).
RECURSIVE SearchPaths(_, _, _, _, _)
SearchPaths(u, paths, i, dir, w32) ==
    IF i > Len(paths) THEN dir
    ELSE LET opened == FileAt(u, paths[i]).open IN
         SearchPaths(u, paths, i + 1,
                     IF (w32 /\ opened) \/ (~w32 /\ ~opened) THEN Ptr(paths[i]) ELSE dir,
                     w32)

\* "handle the /cygdrive/ presence in the directory filename"
Cygdrive(dir) ==
    IF Len(dir) >= 3 /\ SubSeq(dir, 1, 3) = << "/", "cygdrive", "/" >>
    THEN LET rest == SubSeq(dir, 3, Len(dir)) IN
         IF Len(rest) >= 3 /\ rest[3] = "/" /\ rest[2] \in LowerCaseLetters
         THEN << rest[2], ":" >> \o SubSeq(rest, 3, Len(rest))
         ELSE rest
    ELSE dir

\* Whether the tokens of pat stand in str from index p
MatchAt(str, pat, p) ==
    p + Len(pat) - 1 <= Len(str) /\ SubSeq(str, p, p + Len(pat) - 1) = pat

\* strstr(str + from - 1, pat): the index of the first match, 0 when none
StrStr(str, pat, from) ==
    IF \E p \in from..Len(str) : MatchAt(str, pat, p)
    THEN CHOOSE p \in from..Len(str) :
             MatchAt(str, pat, p) /\ \A q \in from..(p - 1) : ~MatchAt(str, pat, q)
    ELSE 0

\* while (*--Ptr1 != ...): the index of the last stop token before p, 0 when
\* the scan runs past the first character
ScanBack(str, p, stops) ==
    IF \E q \in 1..(p - 1) : str[q] \in stops
    THEN CHOOSE q \in 1..(p - 1) :
             str[q] \in stops /\ \A r \in (q + 1)..(p - 1) : str[r] \notin stops
    ELSE 0

\* while ((Ptr = strstr(..., pattern)) || ...): the index Ptr stands on, 0
\* when the loop ends
FirstPattern(str, w32) ==
    IF ~w32 THEN StrStr(str, << "/", "..", "/" >>, 1)
    ELSE IF StrStr(str, << "\\", "..", "\\" >>, 1) # 0
         THEN StrStr(str, << "\\", "..", "\\" >>, 1)
         ELSE IF StrStr(str, << "\\", ".", "\\" >>, 1) # 0
              THEN StrStr(str, << "\\", ".", "\\" >>, 1)
              ELSE StrStr(str, << "\\", "\\" >>, 1)

\* The text copied by strcpy: from Ptr + 4, or with _WIN32 from
\* Ptr + (strstr(Ptr, "\\.\\") ? 2 : (strstr(Ptr, "\\\\") ? 1 : 4)).
\* Ptr + 2 inside "\\..\\" stands on the second '.' of "..".
Remainder(str, p, w32) ==
    IF ~w32 THEN SubSeq(str, p + 3, Len(str))
    ELSE IF StrStr(str, << "\\", ".", "\\" >>, p) # 0
         THEN (IF str[p + 1] = ".." THEN << "." >> ELSE << >>)
                  \o SubSeq(str, p + 2, Len(str))
         ELSE IF StrStr(str, << "\\", "\\" >>, p) # 0
              THEN SubSeq(str, p + 1, Len(str))
              ELSE SubSeq(str, p + 3, Len(str))

\* One turn of the clean-up loop with Ptr at p: [str, ub], ub when the scan
\* back for the separator leaves the string
CutAt(str, p, w32) ==
    LET q == ScanBack(str, p, IF w32 THEN { "\\", ":" } ELSE { "/" }) IN
    IF q = 0 THEN [str |-> str, ub |-> TRUE]
    ELSE [str |-> SubSeq(str, 1, q) \o Remainder(str, p, w32), ub |-> FALSE]

\* "directory path clean-up": [str, ub]
RECURSIVE CleanUp(_, _)
CleanUp(str, w32) ==
    IF FirstPattern(str, w32) = 0 THEN [str |-> str, ub |-> FALSE]
    ELSE LET c == CutAt(str, FirstPattern(str, w32), w32) IN
         IF c.ub THEN c ELSE CleanUp(c.str, w32)

\* PtrSourceFilename[1] == ':'.  The empty name is the block of calloc(1, 1):
\* its second byte is read outside it and stray tells whether it is a ':'.
HasDrive(name, stray) ==
    IF name = << >> THEN stray
    ELSE Len(name) >= 2 /\ name[1] \in LowerCaseLetters /\ name[2] = ":"

\* The names of the unit once its full filename is cleaned up
RootNames(cu, name, dir, clean) ==
    [cu EXCEPT !.PtrSourceFilename = Ptr(name),
               !.PtrSourceFileDirectory = Ptr(dir),
               !.PtrFullFilename = Ptr(clean.str),
               !.ub = clean.ub]

\* The full filename: the filename alone when it holds a drive
FullFilename(name, dir, stray, w32) ==
    IF HasDrive(name, stray) THEN name ELSE dir \o << Separator(w32) >> \o name

\* The filename, the directory and the full filename of a unit whose root
\* gives name0 and dir
RootFilenames(cu, name, dir, stray, w32) ==
    RootNames(cu, name, dir,
              CleanUp(DWARFManager_ConformSlachesBackslashes(
                          FullFilename(name, dir, stray, w32), w32), w32))

\* case DW_TAG_compile_unit: the attributes (none when dwarf_attrlist fails),
\* then the filename, the directory and the full filename
RootAttributes(cu, u, paths, stray, w32) ==
    LET read == u.root = "ok"
        searched == SearchPaths(u, paths, 1, NULL, w32)
    IN RootFilenames(
           [cu EXCEPT !.Tag = "DW_TAG_compile_unit",
                      !.LowPC = IF read THEN AttrOr0(u.low_pc) ELSE 0,
                      !.HighPC = IF read THEN AttrOr0(u.high_pc) ELSE 0,
                      !.Language = IF read THEN AttrOr0(u.language) ELSE 0],
           DWARFManager_ConformSlachesBackslashes(
               IF read /\ u.name # NULL THEN Deref(u.name) ELSE << >>, w32),
           IF read /\ u.comp_dir # NULL THEN Cygdrive(Deref(u.comp_dir))
           ELSE IF searched = NULL THEN << "." >> ELSE Deref(searched),
           stray, w32)

\* "Eliminate all carriage return code"
StripCR(text) == SelectSeq(text, LAMBDA c : c # "\r")

\* "Make sure the text file finish with a new line code"
Terminate(text) == IF text[Len(text)] # "\n" THEN Append(text, "\n") ELSE text

\* "Count line numbers, based on the new line code"
CountLines(text) == Cardinality({ k \in 1..Len(text) : text[k] = "\n" })

\* The file read: the number of lines of the text kept in PtrLoadSrc, and
\* whether PtrLoadSrc[SizeLoadSrc - 1] was read with SizeLoadSrc = 0
LoadSrc(text) ==
    LET stripped == StripCR(text) IN
    IF stripped = << >> THEN [NbLinesLoadSrc |-> 1, ub |-> TRUE]
    ELSE [NbLinesLoadSrc |-> CountLines(Terminate(stripped)), ub |-> FALSE]

\* "get the source file information": the unit's Status, the loaded text and
\* its number of lines.  Without _WIN32 the test after fopen is
\* (SrcFile == NULL): an opened file gives DWARFSTATUS_NOFILE and a file that
\* cannot be opened is passed to fseek as a NULL stream.
SourceFile(cu, f, w32) ==
    IF ~f.stat THEN [cu EXCEPT !.Status = DWARFSTATUS_NOFILEINFO]
    ELSE IF f.newer THEN [cu EXCEPT !.Status = DWARFSTATUS_OUTDATEDFILE]
    ELSE IF w32
         THEN IF f.open
              THEN IF Len(f.text) > 0
                   THEN LET src == LoadSrc(f.text) IN
                        [cu EXCEPT !.PtrLoadSrc = Ptr(src.NbLinesLoadSrc),
                                   !.NbLinesLoadSrc = src.NbLinesLoadSrc,
                                   !.ub = @ \/ src.ub]
                   ELSE cu
              ELSE [cu EXCEPT !.Status = DWARFSTATUS_NOFILE]
         ELSE IF f.open
              THEN [cu EXCEPT !.Status = DWARFSTATUS_NOFILE]
              ELSE [cu EXCEPT !.ub = TRUE]

\* "Get the source lines table located in the CU"
UsedLines(cu, srclines) ==
    IF srclines # NULL /\ cu.Status = DWARFSTATUS_OK /\ Len(Deref(srclines)) > 0
    THEN [cu EXCEPT !.NbUsedLinesSrc = Len(Deref(srclines)),
                    !.PtrUsedLinesSrc = srclines,
                    !.PtrUsedNumLines = Ptr([k \in 1..Len(Deref(srclines)) |-> 0])]
    ELSE cu

\* "Init lines source information ... for each subprogs": the line pointers
\* are kept as the index (NumLineSrc - 1) read in PtrLinesLoadSrc
LinePointer(cu, NumLineSrc) ==
    IF NumLineSrc <= cu.NbLinesLoadSrc THEN Ptr(NumLineSrc - 1) ELSE NULL

SubProgLinePointers(cu, sp) ==
    [sp EXCEPT !.PtrLineSrc = LinePointer(cu, sp.NumLineSrc),
               !.PtrLinesSrc = [k \in 1..Len(@) |->
                    [@[k] EXCEPT !.PtrLineSrc =
                        LinePointer(cu, sp.PtrLinesSrc[k].NumLineSrc)]]]

\* PtrLinesLoadSrc[NumLineSrc - 1] with NumLineSrc = 0 reads before the table
ReadsBeforeTable(sp) ==
    sp.NumLineSrc = 0 \/ \E k \in 1..Len(sp.PtrLinesSrc) : sp.PtrLinesSrc[k].NumLineSrc = 0

\* "Set the source code lines": PtrLinesLoadSrc is Ptr(n), a table of n entries
SourceLines(cu) ==
    IF cu.NbLinesLoadSrc # 0
    THEN [cu EXCEPT !.PtrLinesLoadSrc = Ptr(cu.NbLinesLoadSrc),
                    !.PtrSubProgs = [j \in 1..Len(@) |-> SubProgLinePointers(cu, @[j])],
                    !.ub = @ \/ \E j \in 1..Len(cu.PtrSubProgs) :
                                    ReadsBeforeTable(cu.PtrSubProgs[j])]
    ELSE IF Len(cu.PtrSubProgs) # 0
            /\ Len(cu.PtrSubProgs[Len(cu.PtrSubProgs)].PtrLinesSrc) # 0
         THEN LET last == cu.PtrSubProgs[Len(cu.PtrSubProgs)].PtrLinesSrc
              IN [cu EXCEPT !.PtrLinesLoadSrc = Ptr(last[Len(last)].NumLineSrc)]
         ELSE cu

\* "Setup memory range for the code if CU doesn't have already this
\* information": HighPC == ~0 is the all-ones pattern, -1
RangeFromUsedLines(cu) ==
    IF cu.PtrUsedLinesSrc # NULL /\ cu.PtrLinesLoadSrc # NULL
    THEN LET rows == Deref(cu.PtrUsedLinesSrc)
             cu0 == [cu EXCEPT !.PtrUsedNumLines =
                        Ptr([k \in 1..Len(rows) |-> rows[k].NumLineSrc - 1]),
                               !.PtrUsedLinesSrc =
                        Ptr([k \in 1..Len(rows) |->
                               [rows[k] EXCEPT !.PtrLineSrc = Ptr(rows[k].NumLineSrc - 1)]])]
             cu1 == [cu0 EXCEPT !.ub = @ \/ \E k \in 1..Len(rows) :
                        rows[k].NumLineSrc - 1 \notin 0..(Deref(cu.PtrLinesLoadSrc) - 1)]
         IN IF cu1.LowPC = 0 /\ (cu1.HighPC = 0 \/ cu1.HighPC = -1)
            THEN [cu1 EXCEPT !.LowPC = rows[1].StartPC,
                             !.HighPC = rows[Len(rows)].StartPC]
            ELSE cu1
    ELSE cu

\* "Init global variables information" / "Init local variables information"
ResolveVariables(cu) ==
    [cu EXCEPT
       !.PtrVariables = [i \in 1..Len(@) |-> InitInfosVariable(cu.PtrTypes, @[i])],
       !.PtrSubProgs = [i \in 1..Len(@) |->
           [@[i] EXCEPT !.PtrVariables =
               [j \in 1..Len(@) |-> InitInfosVariable(cu.PtrTypes, @[j])]]]]

\* "get the source file information" for the unit's full filename
RootFile(u, r, w32) == SourceFile(r, FileOf(u, r), w32)

\* What follows the children: the source lines, the range and the variables
AfterChildren(w) ==
    [w EXCEPT !.cu = ResolveVariables(RangeFromUsedLines(SourceLines(w.cu)))]

\* One turn of the loop on the compilation units.  w = [cu, lo, hi] on
\* return.  Without a root DIE or its tag nothing of the unit is read; a root
\* that is no compile unit still has its line table and children read.
BuildUnit(u, paths, return_lowpc, return_highpc, stray, wide, w32) ==
    IF u.root \in { "no_die", "no_tag" }
    THEN [cu |-> EmptyCU, lo |-> return_lowpc, hi |-> return_highpc, wide |-> wide]
    ELSE LET read == u.root = "ok"
             lo == IF read /\ u.low_pc # << >> THEN u.low_pc[1] ELSE return_lowpc
             hi == IF read /\ u.high_pc # << >> THEN u.high_pc[1] ELSE return_highpc
             cu0 == IF u.root = "other_tag"
                    THEN [EmptyCU EXCEPT !.Tag = "DW_TAG_partial_unit"]
                    ELSE RootFile(u, RootAttributes(EmptyCU, u, paths, stray, w32), w32)
         IN AfterChildren(WalkChildren([cu |-> UsedLines(cu0, u.srclines),
                                        lo |-> lo, hi |-> hi, wide |-> wide],
                                       u.children))

\* The loop on the available compilation units: the table built, in order.
\* return_lowpc and return_highpc are locals of the function, not initialised
RECURSIVE BuildUnits(_, _, _, _, _, _, _)
RECURSIVE NextUnits(_, _, _, _, _, _)

\* A loop that counts a unit only when its root DIE gave a tag
NextUnitsWithTag(w, units, paths, stray, wide, w32) ==
    (IF w.cu.Tag = NoTag THEN << >> ELSE << w.cu >>)
        \o BuildUnits(units, paths, w.lo, w.hi, stray, wide, w32)

BuildUnits(units, paths, return_lowpc, return_highpc, stray, wide, w32) ==
    IF units = << >> THEN << >>
    ELSE NextUnits(BuildUnit(Head(units), paths, return_lowpc, return_highpc,
                             stray, wide, w32),
                   Tail(units), paths, stray, wide, w32)

\* ++NbCU: the unit built, then the units after it
NextUnits(w, units, paths, stray, wide, w32) ==
    << w.cu >> \o BuildUnits(units, paths, w.lo, w.hi, stray, wide, w32)

\* A build that goes on from the table it finds
InitCUTableKept(OldPtrCU) == OldPtrCU

\* "Initialisation for the Compilation Units table": NbCU = 0; PtrCU = NULL,
\* whatever the table held
InitCUTable(OldPtrCU) == << >>

DWARFManager_InitDMI(OldPtrCU, units, paths, return_lowpc, return_highpc, stray, wide, w32) ==
    InitCUTable(OldPtrCU)
        \o BuildUnits(units, paths, return_lowpc, return_highpc, stray, wide, w32)

VariableHangs(v) == v.hang
VariableUB(v) == v.ub

\* The build never returns: a variable's type chain runs in a circle
BuildHangs(cus) ==
    \E i \in 1..Len(cus) :
        \/ \E k \in 1..Len(cus[i].PtrVariables) : VariableHangs(cus[i].PtrVariables[k])
        \/ \E j \in 1..Len(cus[i].PtrSubProgs) :
              \E k \in 1..Len(cus[i].PtrSubProgs[j].PtrVariables) :
                  VariableHangs(cus[i].PtrSubProgs[j].PtrVariables[k])

\* The build has executed an operation whose behaviour is undefined
BuildUB(cus) ==
    \E i \in 1..Len(cus) :
        \/ cus[i].ub
        \/ \E k \in 1..Len(cus[i].PtrVariables) : VariableUB(cus[i].PtrVariables[k])
        \/ \E j \in 1..Len(cus[i].PtrSubProgs) :
              \E k \in 1..Len(cus[i].PtrSubProgs[j].PtrVariables) :
                  VariableUB(cus[i].PtrSubProgs[j].PtrVariables[k])

----------------------------------------------------------------------------
\* The blocks of the C heap a unit holds after its build, and the blocks
\* DWARFManager_CloseDMI passes to free

B(cond) == IF cond THEN 1 ELSE 0

\* PtrName, PtrTypeName, and for an expanded struct or union the TabVariables
\* table with, per member, the nested VariablesStruct and its PtrTypeName
\* (the nested PtrName is the member record's own string)
VariableBlocks(v) ==
    B(v.PtrName # NULL) + B(v.PtrTypeName # NULL)
      + (IF v.TabVariables # NULL THEN 1 + 2 * Len(Deref(v.TabVariables)) ELSE 0)

TypeBlocks(T) ==
    B(T.PtrName # NULL) + B(Len(T.PtrStructureMembers) > 0)
      + SumSeq([i \in 1..Len(T.PtrStructureMembers) |->
                    B(T.PtrStructureMembers[i].PtrName # NULL)])

SubProgBlocks(sp) ==
    B(sp.PtrSubprogramName # NULL) + B(Len(sp.PtrLinesSrc) > 0)
      + B(Len(sp.PtrVariables) > 0)
      + SumSeq([k \in 1..Len(sp.PtrVariables) |-> VariableBlocks(sp.PtrVariables[k])])

UnitBlocks(cu) ==
    B(cu.PtrFullFilename # NULL) + B(cu.PtrLoadSrc # NULL)
      + B(cu.PtrSourceFilename # NULL) + B(cu.PtrSourceFileDirectory # NULL)
      + 3 * B(cu.PtrUsedLinesSrc # NULL)
      + cu.NbLinesLoadSrc + B(cu.PtrLinesLoadSrc # NULL)
      + B(Len(cu.PtrSubProgs) > 0)
      + SumSeq([j \in 1..Len(cu.PtrSubProgs) |-> SubProgBlocks(cu.PtrSubProgs[j])])
      + B(Len(cu.PtrTypes) > 0)
      + SumSeq([j \in 1..Len(cu.PtrTypes) |-> TypeBlocks(cu.PtrTypes[j])])
      + B(cu.PtrVariablesSet)
      + SumSeq([k \in 1..Len(cu.PtrVariables) |-> VariableBlocks(cu.PtrVariables[k])])

TableBlocks(cus) ==
    B(Len(cus) > 0) + SumSeq([i \in 1..Len(cus) |-> UnitBlocks(cus[i])])

\* "free variables": PtrName, PtrTypeName and each TabVariables[k]
GlobalFreed(v) ==
    B(v.PtrName # NULL) + B(v.PtrTypeName # NULL) + v.NbTabVariables

\* the local variables of "free the functions information": PtrName, PtrTypeName
LocalFreed(v) ==
    B(v.PtrName # NULL) + B(v.PtrTypeName # NULL)

SubProgFreed(sp) ==
    SumSeq([k \in 1..Len(sp.PtrVariables) |-> LocalFreed(sp.PtrVariables[k])])
      + B(Len(sp.PtrVariables) > 0) + B(Len(sp.PtrLinesSrc) > 0)
      + B(sp.PtrSubprogramName # NULL)

\* One turn of while (NbCU--): the free calls on non-NULL pointers
UnitFreed(cu) ==
    B(cu.PtrFullFilename # NULL) + B(cu.PtrLoadSrc # NULL)
      + B(cu.PtrSourceFilename # NULL) + B(cu.PtrSourceFileDirectory # NULL)
      + 3 * B(cu.PtrUsedLinesSrc # NULL)
      + cu.NbLinesLoadSrc + B(cu.PtrLinesLoadSrc # NULL)
      + SumSeq([j \in 1..Len(cu.PtrSubProgs) |-> SubProgFreed(cu.PtrSubProgs[j])])
      + B(Len(cu.PtrSubProgs) > 0)
      + SumSeq([j \in 1..Len(cu.PtrTypes) |-> TypeBlocks(cu.PtrTypes[j])])
      + B(Len(cu.PtrTypes) > 0)
      + SumSeq([k \in 1..Len(cu.PtrVariables) |-> GlobalFreed(cu.PtrVariables[k])])
      + B(cu.PtrVariablesSet)

\* DWARFManager_CloseDMI from unit count n: [NbCU, freed, fault].  Reading
\* PtrCU[NbCU] when the table has been freed, or beyond it, is undefined.
RECURSIVE CloseLoop(_, _, _, _)
CloseLoop(n, cus, state, freed) ==
    IF U32IsZero(n)
    THEN [NbCU |-> U32Dec(n), freed |-> freed + B(state = "live"), fault |-> FALSE]
    ELSE LET n1 == U32Dec(n) IN
         IF state # "live" \/ n1 + 1 \notin 1..Len(cus)
         THEN [NbCU |-> n1, freed |-> freed, fault |-> TRUE]
         ELSE CloseLoop(n1, cus, state, freed + UnitFreed(cus[n1 + 1]))

DWARFManager_CloseDMI(n, cus, state) == CloseLoop(n, cus, state, 0)

----------------------------------------------------------------------------
\* The queries, as functions of the unit table.  A query result is
\* [val, oob]: oob tells that the code indexed a list outside its bounds.

Result(val, oob) == [val |-> val, oob |-> oob]
NoReturn == [done |-> FALSE, val |-> 0, oob |-> FALSE]
Return(val, oob) == [done |-> TRUE, val |-> val, oob |-> oob]

InRange(Adr, r) == Adr >= r.LowPC /\ Adr < r.HighPC

\* for (k = 0; k < NbLinesSrc; k++) of DWARFManager_GetNumLineFromAdr
RECURSIVE ScanLinesSrc(_, _, _, _)
ScanLinesSrc(PtrLinesSrc, Adr, Tag, k) ==
    IF k > Len(PtrLinesSrc) THEN NoReturn
    ELSE IF PtrLinesSrc[k].StartPC <= Adr
         THEN IF PtrLinesSrc[k].StartPC = Adr /\ (Tag = 0 \/ PtrLinesSrc[k].Tag = Tag)
              THEN Return(PtrLinesSrc[k].NumLineSrc, FALSE)
              ELSE ScanLinesSrc(PtrLinesSrc, Adr, Tag, k + 1)
         ELSE IF k = 1
              THEN Return(0, TRUE)          \* PtrLinesSrc[-1]
              ELSE Return(PtrLinesSrc[k - 1].NumLineSrc, FALSE)

\* for (j = 0; j < NbSubProgs; j++) of DWARFManager_GetNumLineFromAdr
RECURSIVE ScanSubProgs(_, _, _, _)
ScanSubProgs(PtrSubProgs, Adr, Tag, j) ==
    IF j > Len(PtrSubProgs) THEN NoReturn
    ELSE LET sp == PtrSubProgs[j] IN
         IF InRange(Adr, sp)
         THEN IF sp.StartPC = Adr /\ (Tag = 0 \/ Tag = DW_TAG_subprogram)
              THEN Return(sp.NumLineSrc, FALSE)
              ELSE LET r == ScanLinesSrc(sp.PtrLinesSrc, Adr, Tag, 1) IN
                   IF r.done THEN r ELSE ScanSubProgs(PtrSubProgs, Adr, Tag, j + 1)
         ELSE ScanSubProgs(PtrSubProgs, Adr, Tag, j + 1)

\* "Check if a used line is found with the address"
RECURSIVE ScanUsedLines(_, _, _)
ScanUsedLines(rows, Adr, j) ==
    IF j > Len(rows) THEN NoReturn
    ELSE IF rows[j].StartPC = Adr THEN Return(rows[j].NumLineSrc, FALSE)
         ELSE ScanUsedLines(rows, Adr, j + 1)

UsedLinesOf(cu) == IF cu.PtrUsedLinesSrc = NULL THEN << >> ELSE Deref(cu.PtrUsedLinesSrc)

RECURSIVE NumLineFromAdr(_, _, _, _)
NumLineFromAdr(cus, Adr, Tag, i) ==
    IF i > Len(cus) THEN Return(0, FALSE)
    ELSE IF InRange(Adr, cus[i])
         THEN LET r == ScanSubProgs(cus[i].PtrSubProgs, Adr, Tag, 1) IN
              IF r.done THEN r
              ELSE LET u == ScanUsedLines(UsedLinesOf(cus[i]), Adr, 1) IN
                   IF u.done THEN u ELSE NumLineFromAdr(cus, Adr, Tag, i + 1)
         ELSE NumLineFromAdr(cus, Adr, Tag, i + 1)

DWARFManager_GetNumLineFromAdr(cus, Adr, Tag) ==
    LET r == NumLineFromAdr(cus, Adr, Tag, 1) IN Result(r.val, r.oob)

\* The first subprogram whose range holds Adr, in the first unit whose range
\* holds Adr and has such a subprogram: << i, j >>, or << >>
RECURSIVE SubProgOfAdr(_, _, _, _)
SubProgOfAdr(cus, Adr, i, j) ==
    IF i > Len(cus) THEN << >>
    ELSE IF ~InRange(Adr, cus[i]) \/ j > Len(cus[i].PtrSubProgs)
         THEN SubProgOfAdr(cus, Adr, i + 1, 1)
         ELSE IF InRange(Adr, cus[i].PtrSubProgs[j]) THEN << i, j >>
              ELSE SubProgOfAdr(cus, Adr, i, j + 1)

\* A global branch that forgets Index -= PtrCU[i].NbVariables
RECURSIVE GlobalVariableAtNoCarry(_, _, _)
GlobalVariableAtNoCarry(cus, Index, i) ==
    IF i > Len(cus) THEN NULL
    ELSE IF Len(cus[i].PtrVariables) # 0 /\ Index <= Len(cus[i].PtrVariables)
         THEN Ptr(<< i, 0, Index >>)
         ELSE GlobalVariableAtNoCarry(cus, Index, i + 1)

\* The global branch of DWARFManager_GetInfosVariable: &PtrCU[i].PtrVariables
\* [Index - 1] is << i, 0, Index >>
RECURSIVE GlobalVariableAt(_, _, _)
GlobalVariableAt(cus, Index, i) ==
    IF i > Len(cus) THEN NULL
    ELSE IF Len(cus[i].PtrVariables) # 0
         THEN IF Index <= Len(cus[i].PtrVariables)
              THEN Ptr(<< i, 0, Index >>)
              ELSE GlobalVariableAt(cus, Index - Len(cus[i].PtrVariables), i + 1)
         ELSE GlobalVariableAt(cus, Index, i + 1)

\* The list a variable pointer << i, j, k >> points into, and whether it
\* points to one of its elements
ListOf(cus, p) ==
    IF p[2] = 0 THEN cus[p[1]].PtrVariables
    ELSE cus[p[1]].PtrSubProgs[p[2]].PtrVariables

InsideList(cus, p) == p[3] \in 1..Len(ListOf(cus, p))

DWARFManager_GetInfosVariable(cus, Adr, Index) ==
    LET p == IF Adr # 0
             THEN LET s == SubProgOfAdr(cus, Adr, 1, 1) IN
                  IF s = << >> THEN NULL ELSE Ptr(<< s[1], s[2], Index >>)
             ELSE GlobalVariableAt(cus, Index, 1)
    IN Result(p, p # NULL /\ ~InsideList(cus, Deref(p)))

DWARFManager_GetNbVariables(cus, Adr) ==
    IF Adr # 0
    THEN LET s == SubProgOfAdr(cus, Adr, 1, 1) IN
         Result(IF s = << >> THEN 0
                ELSE Len(cus[s[1]].PtrSubProgs[s[2]].PtrVariables), FALSE)
    ELSE Result(SumSeq([i \in 1..Len(cus) |-> Len(cus[i].PtrVariables)]), FALSE)

DWARFManager_GetNbSources(n) == Result(n, FALSE)

DWARFManager_GetFunctionName(cus, Adr) ==
    LET s == SubProgOfAdr(cus, Adr, 1, 1) IN
    Result(IF s = << >> THEN NULL ELSE cus[s[1]].PtrSubProgs[s[2]].PtrSubprogramName,
           FALSE)

\* The first subprogram that starts at Adr, in the units whose range holds
\* Adr: << i, j >>, or << >>
RECURSIVE SubProgStartingAt(_, _, _, _)
SubProgStartingAt(cus, Adr, i, j) ==
    IF i > Len(cus) THEN << >>
    ELSE IF ~InRange(Adr, cus[i]) \/ j > Len(cus[i].PtrSubProgs)
         THEN SubProgStartingAt(cus, Adr, i + 1, 1)
         ELSE IF cus[i].PtrSubProgs[j].StartPC = Adr THEN << i, j >>
              ELSE SubProgStartingAt(cus, Adr, i, j + 1)

DWARFManager_GetSymbolnameFromAdr(cus, Adr) ==
    LET s == SubProgStartingAt(cus, Adr, 1, 1) IN
    Result(IF s = << >> THEN NULL ELSE cus[s[1]].PtrSubProgs[s[2]].PtrSubprogramName,
           FALSE)

\* The value returned and the value written to *Status, "unwritten" when
\* nothing is
DWARFManager_GetFullSourceFilenameFromAdr(cus, Adr) ==
    LET in == { i \in 1..Len(cus) : InRange(Adr, cus[i]) } IN
    IF in = { } THEN Result([name |-> NULL, Status |-> "unwritten"], FALSE)
    ELSE LET i == CHOOSE i \in in : \A k \in in : i <= k IN
         Result([name |-> cus[i].PtrFullFilename, Status |-> cus[i].Status], FALSE)

\* strcmp of each global's PtrName with VariableName, unit after unit
DWARFManager_GetGlobalVariableAdrFromName(cus, VariableName) ==
    LET all == Flatten([i \in 1..Len(cus) |-> cus[i].PtrVariables])
        hits == { k \in 1..Len(all) : all[k].PtrName = Ptr(VariableName) }
    IN Result(IF hits = { } THEN 0
              ELSE all[CHOOSE k \in hits : \A m \in hits : k <= m].Addr, FALSE)

\* PtrCU[Index].field: no query by index compares Index with NbCU
UnitField(cus, Index, field) ==
    IF Index + 1 \in 1..Len(cus) THEN Result(cus[Index + 1][field], FALSE)
    ELSE Result(0, TRUE)

DWARFManager_GetSrcNbListPtrFromIndex(cus, Index, Used) ==
    UnitField(cus, Index, IF ~Used THEN "NbLinesLoadSrc" ELSE "NbUsedLinesSrc")

DWARFManager_GetSrcNumLinesPtrFromIndex(cus, Index, Used) ==
    IF Used THEN UnitField(cus, Index, "PtrUsedNumLines") ELSE Result(NULL, FALSE)

\* PtrUsedLinesLoadSrc is allocated with PtrUsedLinesSrc and holds the line
\* pointers of its rows
DWARFManager_GetSrcListPtrFromIndex(cus, Index, Used) ==
    IF ~Used THEN UnitField(cus, Index, "PtrLinesLoadSrc")
    ELSE LET r == UnitField(cus, Index, "PtrUsedLinesSrc") IN
         IF r.oob \/ r.val = NULL THEN r
         ELSE Result(Ptr([k \in 1..Len(Deref(r.val)) |-> Deref(r.val)[k].PtrLineSrc]),
                     FALSE)

DWARFManager_GetSrcLanguageFromIndex(cus, Index) == UnitField(cus, Index, "Language")

DWARFManager_GetNumFullSourceFilename(cus, Index) ==
    UnitField(cus, Index, "PtrFullFilename")

DWARFManager_GetNumSourceFilename(cus, Index) ==
    UnitField(cus, Index, "PtrSourceFilename")

----------------------------------------------------------------------------
\* Bounds of the model

MaxUnits == 2      \* units in a session made of data-only units
MaxLoads == 2      \* successful loads in a run
MaxAddr == 5       \* queried addresses are 0..MaxAddr
MaxIndex == 3      \* queried variable indexes are 0..MaxIndex

----------------------------------------------------------------------------
\* The sessions: small executables whose code lies in [1, 5)

Str(s) == Ptr(<< s >>)

IntType ==
    TypeDie(DW_TAG_base_type, 1, Str("int"), << >>, << 4 >>, << 5 >>, << >>)

UData(n) == << [form |-> "udata", v |-> n, bytes |-> << >>] >>

PairType ==
    TypeDie(DW_TAG_structure_type, 2, Str("pair"), << >>, << 8 >>, << >>,
            << MemberDie(Str("x"), << 1 >>, UData(0)),
               MemberDie(Str("y"), << 1 >>, UData(4)) >>)

\* A location block DW_OP_addr (3) with a 4-byte address
GlobalDie(name, addr, type) ==
    VariableDie(DW_TAG_variable, name, Ptr(<< 3, 0, 0, 0, addr >>), << type >>)

\* A location block DW_OP_fbreg (145) with a one-byte LEB128 offset
LocalDie(tag, name, offset, type) ==
    VariableDie(tag, name, Ptr(<< 145, offset >>), << type >>)

\* A text of n lines
TextOfLines(n) == Flatten([k \in 1..n |-> << "a", "\n" >>])

GoodFile == File(TRUE, FALSE, TRUE, TextOfLines(20))
ClosedFile == File(TRUE, FALSE, FALSE, << >>)
NewerFile == File(TRUE, TRUE, TRUE, TextOfLines(20))

\* Units without code: types and unit-scope variables only
DataUnit(kids) == Unit(<< >>, << >>, NoFile, NULL, kids)

DataUnits ==
    { DataUnit(<< IntType >>),
      DataUnit(<< IntType,
                  GlobalDie(Str("a"), 16, 1),
                  GlobalDie(NULL, 17, 1),
                  GlobalDie(Str("z"), 0, 1),
                  GlobalDie(Str("b"), 18, 1) >>) }

\* A unit with a global of a struct type declared after it
StructUnit == DataUnit(<< GlobalDie(Str("p"), 32, 2), IntType, PairType >>)

RECURSIVE SeqsUpTo(_, _)
SeqsUpTo(S, n) ==
    IF n = 0 THEN { << >> }
    ELSE LET shorter == SeqsUpTo(S, n - 1)
         IN shorter \cup { Append(q, x) : q \in shorter, x \in S }

DataSessions == SeqsUpTo(DataUnits, MaxUnits)

\* A unit with one function f spanning [1, 5), declared at line 10, with a
\* named parameter, an unnamed one and a struct-typed local
FunctionF(kids) == SubprogramDie(Str("f"), << 1 >>, << 5 >>, << 10 >>, kids)

\* A declaration: a subprogram entry without code
DeclarationG == SubprogramDie(Str("g"), << >>, << >>, << 9 >>, << >>)

LocalsOfF ==
    << LocalDie(DW_TAG_formal_parameter, Str("n"), 4, 1),
       LocalDie(DW_TAG_formal_parameter, NULL, 8, 1),
       LocalDie(DW_TAG_variable, Str("s"), 120, 2) >>

LocalSessions ==
    { << StructUnit >>,
      << Unit(<< 1 >>, << 5 >>, NoFile, NULL,
              << IntType, PairType, FunctionF(LocalsOfF) >>) >>,
      << DataUnit(<< IntType, GlobalDie(Str("a"), 16, 1) >>),
         Unit(<< 1 >>, << 5 >>, NoFile, NULL,
              << IntType, PairType, FunctionF(LocalsOfF) >>) >> }

\* The line tables: the rows inside f; the same with the row that starts
\* the code after f; rows that start after f's first instruction; none
LineTables ==
    { Ptr(<< Row(1, 10), Row(2, 12), Row(3, 15) >>),
      Ptr(<< Row(1, 10), Row(2, 12), Row(3, 15), Row(5, 17) >>),
      Ptr(<< Row(3, 12), Row(4, 15) >>),
      NULL }

Ranges == { << << 1 >>, << 5 >> >>, << << >>, << >> >> }

LineSessions ==
    { << Unit(range[1], range[2], file, rows, << FunctionF(<< >>) >>) >> :
        range \in Ranges, file \in { GoodFile, NoFile, ClosedFile }, rows \in LineTables }
    \cup
    { << Unit(range[1], range[2], GoodFile,
              Ptr(<< Row(1, 10), Row(2, 12), Row(3, 15) >>),
              << DeclarationG, FunctionF(<< >>) >>) >> : range \in Ranges }
    \cup
    { << Unit(<< 1 >>, << 5 >>, NewerFile,
              Ptr(<< Row(1, 10), Row(2, 12), Row(3, 15) >>),
              << FunctionF(<< >>) >>) >> }

\* The programs: a build and an executable.  Only a unit whose source file
\* answers stat is built differently with and without _WIN32.
Programs ==
    (BOOLEAN \X LineSessions) \cup ({ TRUE } \X (DataSessions \cup LocalSessions))

\* What an object that was never written may hold
Indeterminate == { 0, MaxAddr }

\* What the locals return_lowpc and return_highpc may hold before they are
\* first written: a frame that selects every row, one that selects none
IndeterminateFrames == { << 0, MaxAddr >>, << MaxAddr, 0 >> }

\* Whether the byte after a block of one byte is a ':': read only when a
\* unit's root gives no filename
StrayBytes(units) ==
    IF \E i \in 1..Len(units) :
          units[i].root = "no_attrlist" \/ (units[i].root = "ok" /\ units[i].name = NULL)
    THEN BOOLEAN ELSE { FALSE }

\* Whether size_t has 64 bits in the build: it shows only when a unit-scope
\* variable has a 4-byte address whose first byte is 0x80 or more
SizeTWidths(units) ==
    IF \E i \in 1..Len(units) : \E k \in 1..Len(units[i].children) :
          /\ units[i].children[k].tag = DW_TAG_variable
          /\ units[i].children[k].block # NULL
          /\ Len(Deref(units[i].children[k].block)) = 5
          /\ Deref(units[i].children[k].block)[2] >= 128
    THEN BOOLEAN ELSE { FALSE }

\* The addresses of the variable queries: none, one inside f, one outside
VariableAddrs == { 0, 1, MaxAddr }

\* The search-path lists the debugger passes to DWARFManager_Set
PathLists ==
    { [n |-> 0, list |-> NULL], [n |-> 1, list |-> Ptr(<< << "/", "src" >> >>)] }

----------------------------------------------------------------------------
\* ListSearchPaths[0 .. NbSearchPaths - 1]
PathsOf(list, n) == IF n = 0 THEN << >> ELSE SubSeq(Deref(list), 1, n)

\* The calls.  ret is the last call: its name, its arguments, what it
\* returned, and whether it indexed a list outside its bounds.

Call(fn, adr, idx, r) ==
    [fn |-> fn, adr |-> adr, idx |-> idx, val |-> r.val, oob |-> r.oob]

\* The flat global list as the two global queries give it: name, address and
\* type of the variable of each index 1..DWARFManager_GetNbVariables(0)
GlobalsSnapshot(cus) ==
    [k \in 1..DWARFManager_GetNbVariables(cus, 0).val |->
        LET r == DWARFManager_GetInfosVariable(cus, 0, k) IN
        IF r.val = NULL \/ r.oob THEN << >>
        ELSE LET v == ListOf(cus, Deref(r.val))[Deref(r.val)[3]] IN
             << v.PtrName, v.Addr, v.TypeOffset, v.TypeTag, v.PtrTypeName >>]

\* The state after the start-up call of DWARFManager_Init on the zeroed
\* statics, for a build and an executable
Init ==
    /\ \E p \in Programs : win32 = p[1] /\ session = p[2]
    /\ LibDwarf = DW_DLV_NO_ENTRY
    /\ NbCU = 0
    /\ PtrCU = << >>
    /\ PtrCUState = "null"
    /\ ListSearchPaths = NULL
    /\ NbSearchPaths = 0
    /\ heap = 0
    /\ fault = "none"
    /\ ret = Call("none", 0, 0, Result(NULL, FALSE))
    /\ loads = 0
    /\ resetRun = 0
    /\ firstGlobals = NULL

DWARFManager_Init ==
    /\ fault = "none"
    /\ ListSearchPaths' = NULL
    /\ NbSearchPaths' = 0
    /\ LibDwarf' = DW_DLV_NO_ENTRY
    /\ ret' = Call("DWARFManager_Init", 0, 0, Result(NULL, FALSE))
    /\ resetRun' = 0
    /\ UNCHANGED << win32, session, NbCU, PtrCU, PtrCUState, heap, fault, loads,
                    firstGlobals >>

\* DWARFManager_Set with one of the lists
Set(lists) ==
    /\ fault = "none"
    /\ \E p \in lists :
         /\ ListSearchPaths' = p.list
         /\ NbSearchPaths' = p.n
    /\ ret' = Call("DWARFManager_Set", 0, 0, Result(NULL, FALSE))
    /\ resetRun' = 0
    /\ UNCHANGED << win32, session, LibDwarf, NbCU, PtrCU, PtrCUState, heap, fault,
                    loads, firstGlobals >>

DWARFManager_Set == Set(PathLists)

\* The end of a load that built cus: a build that runs in a circle never
\* returns, one that executes an undefined operation crashes or goes on.  A
\* table still held is not released.
Loaded(cus) ==
    IF BuildHangs(cus)
    THEN /\ fault' = "hang"
         /\ ret' = Call("DWARFManager_ElfInit", 0, 0, Result(NULL, FALSE))
         /\ UNCHANGED << LibDwarf, NbCU, PtrCU, PtrCUState, heap, loads,
                         resetRun, firstGlobals >>
    ELSE \E crash \in (IF BuildUB(cus) THEN BOOLEAN ELSE { FALSE }) :
         IF crash
         THEN /\ fault' = "crash"
              /\ ret' = Call("DWARFManager_ElfInit", 0, 0, Result(NULL, FALSE))
              /\ UNCHANGED << LibDwarf, NbCU, PtrCU, PtrCUState, heap, loads,
                              resetRun, firstGlobals >>
         ELSE /\ LibDwarf' = DW_DLV_OK
              /\ NbCU' = Len(cus)
              /\ PtrCU' = cus
              /\ PtrCUState' = IF Len(cus) = 0 THEN "null" ELSE "live"
              /\ heap' = heap + TableBlocks(cus)
              /\ loads' = loads + 1
              /\ resetRun' = 1
              /\ firstGlobals' = IF firstGlobals = NULL
                                 THEN Ptr(GlobalsSnapshot(cus))
                                 ELSE firstGlobals
              /\ ret' = Call("DWARFManager_ElfInit", 0, 0, Result(DW_DLV_OK, FALSE))
              /\ fault' = fault

\* dwarf_elf_init answers rc.  On DW_DLV_OK the table is rebuilt.
DWARFManager_ElfInit ==
    /\ fault = "none"
    /\ loads < MaxLoads
    /\ \E rc \in { DW_DLV_OK, DW_DLV_NO_ENTRY, DW_DLV_ERROR } :
         IF rc # DW_DLV_OK
         THEN /\ LibDwarf' = rc
              /\ ret' = Call("DWARFManager_ElfInit", 0, 0, Result(rc, FALSE))
              /\ resetRun' = 0
              /\ UNCHANGED << NbCU, PtrCU, PtrCUState, heap, fault, loads, firstGlobals >>
         ELSE \E frame \in IndeterminateFrames, stray \in StrayBytes(session),
                 wide \in SizeTWidths(session) :
              Loaded(DWARFManager_InitDMI(PtrCU, session,
                                          PathsOf(ListSearchPaths, NbSearchPaths),
                                          frame[1], frame[2], stray, wide, win32))
    /\ UNCHANGED << win32, session, ListSearchPaths, NbSearchPaths >>

\* DWARFManager_ElfClose, called fn by DWARFManager_Reset or _Close.
\* dwarf_finish answers fin.
ElfClose(fn) ==
    IF LibDwarf = DW_DLV_OK
    THEN LET c == DWARFManager_CloseDMI(NbCU, PtrCU, PtrCUState) IN
         IF c.fault
         THEN /\ fault' = "use after free"
              /\ ret' = Call(fn, 0, 0, Result(NULL, FALSE))
              /\ NbCU' = c.NbCU
              /\ UNCHANGED << LibDwarf, PtrCU, PtrCUState, heap >>
         ELSE /\ NbCU' = c.NbCU
              /\ heap' = heap - c.freed
              /\ PtrCU' = << >>
              /\ PtrCUState' = IF PtrCUState = "live" THEN "freed" ELSE PtrCUState
              /\ fault' = fault
              /\ \E fin \in { DW_DLV_OK, DW_DLV_ERROR } :
                   IF fin = DW_DLV_OK
                   THEN /\ LibDwarf' = DW_DLV_NO_ENTRY
                        /\ ret' = Call(fn, 0, 0, Result(TRUE, FALSE))
                   ELSE /\ LibDwarf' = LibDwarf
                        /\ ret' = Call(fn, 0, 0, Result(FALSE, FALSE))
    ELSE /\ ret' = Call(fn, 0, 0, Result(TRUE, FALSE))
         /\ UNCHANGED << LibDwarf, NbCU, PtrCU, PtrCUState, heap, fault >>

\* resetRun: 0, then 1 after a successful load, 2 after a Reset or Close that
\* directly follows it, 3 after the next ones
NextInRun(n) == IF n = 0 THEN 0 ELSE IF n < 3 THEN n + 1 ELSE n

DWARFManager_Reset ==
    /\ fault = "none"
    /\ ListSearchPaths' = NULL
    /\ NbSearchPaths' = 0
    /\ ElfClose("DWARFManager_Reset")
    /\ resetRun' = NextInRun(resetRun)
    /\ UNCHANGED << win32, session, loads, firstGlobals >>

DWARFManager_Close ==
    /\ fault = "none"
    /\ ListSearchPaths' = NULL
    /\ NbSearchPaths' = 0
    /\ ElfClose("DWARFManager_Close")
    /\ resetRun' = NextInRun(resetRun)
    /\ UNCHANGED << win32, session, loads, firstGlobals >>

\* A query whose loop for (i = 0; i < NbCU; i++) reads PtrCU[0] while PtrCU
\* is NULL or freed has undefined behaviour
ReadsNoTable == U32Less(0, NbCU) /\ PtrCUState # "live"

\* A query changes ret only, so one that follows a query reaches no state
\* that the same query reaches after the call before it: queries are taken
\* after the other calls.
IndexQueryNames ==
    { "DWARFManager_GetSrcNbListPtrFromIndex", "DWARFManager_GetSrcNumLinesPtrFromIndex",
      "DWARFManager_GetSrcListPtrFromIndex", "DWARFManager_GetSrcLanguageFromIndex",
      "DWARFManager_GetNumFullSourceFilename", "DWARFManager_GetNumSourceFilename" }

QueryNames ==
    { "DWARFManager_GetNumLineFromAdr", "DWARFManager_GetInfosVariable",
      "DWARFManager_GetNbVariables", "DWARFManager_GetNbSources",
      "DWARFManager_GetFunctionName", "DWARFManager_GetSymbolnameFromAdr",
      "DWARFManager_GetFullSourceFilenameFromAdr",
      "DWARFManager_GetGlobalVariableAdrFromName" } \cup IndexQueryNames

Query(fn, adr, idx, r) ==
    /\ fault = "none"
    /\ ret.fn \notin QueryNames
    /\ IF ReadsNoTable
       THEN /\ fault' = "use after free"
            /\ ret' = Call(fn, adr, idx, Result(NULL, FALSE))
       ELSE /\ fault' = fault
            /\ ret' = Call(fn, adr, idx, r)
    /\ UNCHANGED << win32, session, LibDwarf, NbCU, PtrCU, PtrCUState,
                    ListSearchPaths, NbSearchPaths, heap, loads, resetRun,
                    firstGlobals >>

\* An out-of-bounds read gives an indeterminate value
GetNumLineFromAdr ==
    \E Adr \in 0..MaxAddr, Tag \in { 0, DW_TAG_subprogram } :
        LET r == DWARFManager_GetNumLineFromAdr(PtrCU, Adr, Tag) IN
        \E g \in (IF r.oob /\ ~ReadsNoTable THEN Indeterminate ELSE { r.val }) :
            Query("DWARFManager_GetNumLineFromAdr", Adr, Tag, Result(g, r.oob))

GetInfosVariable ==
    \E Adr \in VariableAddrs, Index \in 0..MaxIndex :
        Query("DWARFManager_GetInfosVariable", Adr, Index,
              DWARFManager_GetInfosVariable(PtrCU, Adr, Index))

GetNbVariables ==
    \E Adr \in VariableAddrs :
        Query("DWARFManager_GetNbVariables", Adr, 0,
              DWARFManager_GetNbVariables(PtrCU, Adr))

\* DWARFManager_GetNbSources reads NbCU only
GetNbSources ==
    /\ fault = "none"
    /\ ret.fn \notin QueryNames
    /\ ret' = Call("DWARFManager_GetNbSources", 0, 0, DWARFManager_GetNbSources(NbCU))
    /\ UNCHANGED << win32, session, LibDwarf, NbCU, PtrCU, PtrCUState,
                    ListSearchPaths, NbSearchPaths, heap, fault, loads, resetRun,
                    firstGlobals >>

Next ==
    \/ DWARFManager_Init
    \/ DWARFManager_Set
    \/ DWARFManager_ElfInit
    \/ DWARFManager_Reset
    \/ DWARFManager_Close
    \/ GetNumLineFromAdr
    \/ GetInfosVariable
    \/ GetNbVariables
    \/ GetNbSources

Spec == Init /\ [][Next]_vars

----------------------------------------------------------------------------
\* The type resolver on its own: executables of one unit whose type list is
\* a chain of up to MaxChain records, record i at offset i, with a global
\* (located, so expanded) and a local without location that refer to record 1

MaxChain == 2

TypeRefs(i) == { << >>, << i + 1 >> }

TypeMenu(i) ==
    { TypeDie(DW_TAG_base_type, i, name, << >>, << 4 >>, << 5 >>, << >>) :
        name \in { Str("int"), NULL } }
    \cup
    { TypeDie(tag, i, NULL, << >>, << 4 >>, << >>, << >>) :
        tag \in { DW_TAG_enumeration_type, DW_TAG_subrange_type, DW_TAG_subroutine_type } }
    \cup
    { TypeDie(tag, i, NULL, ref, << 4 >>, << >>, << >>) :
        tag \in { DW_TAG_pointer_type, DW_TAG_const_type, DW_TAG_array_type },
        ref \in TypeRefs(i) }
    \cup
    { TypeDie(DW_TAG_pointer_type, i, NULL, << 1 >>, << 4 >>, << >>, << >>) }
    \cup
    { TypeDie(DW_TAG_typedef, i, Str("T"), ref, << >>, << >>, << >>) : ref \in TypeRefs(i) }
    \cup
    { TypeDie(DW_TAG_typedef, i, NULL, << i + 1 >>, << >>, << >>, << >>) }
    \cup
    { TypeDie(tag, i, name, << >>, << 8 >>, << >>, members) :
        tag \in { DW_TAG_structure_type, DW_TAG_union_type },
        name \in { Str("S"), NULL },
        members \in { << >>, << MemberDie(Str("m"), << i + 1 >>, UData(0)) >> } }

RECURSIVE TypeChains(_)
TypeChains(n) ==
    IF n = 0 THEN { << >> }
    ELSE LET shorter == TypeChains(n - 1)
         IN shorter \cup { Append(c, T) : c \in { d \in shorter : Len(d) = n - 1 },
                                          T \in TypeMenu(n) }

\* struct S { int a; int b; } at offset i, with int at offset int
StructS(tag, i, name, int) ==
    TypeDie(tag, i, name, << >>, << 8 >>, << >>,
            << MemberDie(Str("a"), << int >>, UData(0)),
               MemberDie(Str("b"), << int >>, UData(4)) >>)

IntAt(i) == TypeDie(DW_TAG_base_type, i, Str("int"), << >>, << 4 >>, << 5 >>, << >>)

TypedefTo(i, name) == TypeDie(DW_TAG_typedef, i, Str(name), << i + 1 >>, << >>, << >>, << >>)

\* A struct or union at offset i whose one member m, at location 0, has the
\* type at offset ref
RecordOf(tag, i, name, ref) ==
    TypeDie(tag, i, Str(name), << >>, << 8 >>, << >>,
            << MemberDie(Str("m"), << ref >>, UData(0)) >>)

\* Type graphs that refer to themselves through members: struct S { S m; };
\* struct A { B m; } with union B { A m; }.  And a struct within a struct:
\* struct O { int a; I b; } with struct I { int m; }
RecordGraphs ==
    { << RecordOf(DW_TAG_structure_type, 1, "S", 1) >>,
      << RecordOf(DW_TAG_structure_type, 1, "A", 2),
         RecordOf(DW_TAG_union_type, 2, "B", 1) >>,
      << TypeDie(DW_TAG_structure_type, 1, Str("O"), << >>, << 8 >>, << >>,
                 << MemberDie(Str("a"), << 3 >>, UData(0)),
                    MemberDie(Str("b"), << 2 >>, UData(4)) >>),
         RecordOf(DW_TAG_structure_type, 2, "I", 3), IntAt(3) >> }

\* Longer chains: S; T -> S; T -> U -> S; pointer -> T -> U -> union;
\* const -> T -> S
LongChains ==
    { << StructS(DW_TAG_structure_type, 1, Str("S"), 2), IntAt(2) >>,
      << TypedefTo(1, "T"), StructS(DW_TAG_structure_type, 2, Str("S"), 3), IntAt(3) >>,
      << TypedefTo(1, "T"), TypedefTo(2, "U"),
         StructS(DW_TAG_structure_type, 3, Str("S"), 4), IntAt(4) >>,
      << TypeDie(DW_TAG_pointer_type, 1, NULL, << 2 >>, << 4 >>, << >>, << >>),
         TypedefTo(2, "T"), TypedefTo(3, "U"),
         StructS(DW_TAG_union_type, 4, NULL, 5), IntAt(5) >>,
      << TypeDie(DW_TAG_const_type, 1, NULL, << 2 >>, << 4 >>, << >>, << >>),
         TypedefTo(2, "T"), StructS(DW_TAG_structure_type, 3, NULL, 4), IntAt(4) >> }

TypeSessions ==
    { << Unit(<< 1 >>, << 5 >>, NoFile, NULL,
              chain \o << GlobalDie(Str("v"), 16, 1),
                          FunctionF(<< VariableDie(DW_TAG_variable, Str("w"), NULL,
                                                   << 1 >>) >>) >>) >> :
        chain \in (TypeChains(MaxChain) \ { << >> }) \cup LongChains \cup RecordGraphs }

InitTypes ==
    /\ win32 = TRUE
    /\ session \in TypeSessions
    /\ LibDwarf = DW_DLV_NO_ENTRY
    /\ NbCU = 0
    /\ PtrCU = << >>
    /\ PtrCUState = "null"
    /\ ListSearchPaths = NULL
    /\ NbSearchPaths = 0
    /\ heap = 0
    /\ fault = "none"
    /\ ret = Call("none", 0, 0, Result(NULL, FALSE))
    /\ loads = 0
    /\ resetRun = 0
    /\ firstGlobals = NULL

\* One load: what a second one adds is checked under Spec
NextTypes == loads = 0 /\ DWARFManager_ElfInit

SpecTypes == InitTypes /\ [][NextTypes]_vars

----------------------------------------------------------------------------
\* The source files and the queries by address, by name and by unit index:
\* executables whose units differ by what the root DIE gives, by where the
\* file system holds the file, by the file's text and by what fails to read

MaxText == 2       \* characters of a source text

DirA == << "/", "a" >>
DirB == << "/", "b" >>

SearchLists ==
    { [n |-> 0, list |-> NULL],
      [n |-> 1, list |-> Ptr(<< DirA, DirB >>)],
      [n |-> 2, list |-> Ptr(<< DirA, DirB >>)],
      [n |-> 2, list |-> Ptr(<< DirB, DirA >>)] }

Rows3 == Ptr(<< Row(1, 10), Row(2, 12), Row(3, 15) >>)

\* A unit "x.c" whose root DIE records no directory
PathSessions ==
    { << RootUnit("ok", Str("x.c"), NULL, << >>, found, << 1 >>, << 5 >>, GoodFile,
                  Rows3, << FunctionF(<< >>) >>) >> : found \in SUBSET { DirA, DirB } }

Texts == SeqsUpTo({ "a", "\r", "\n" }, MaxText)

TextSessions ==
    { << Unit(<< 1 >>, << 5 >>, File(TRUE, FALSE, TRUE, text), NULL, << >>) >> :
        text \in Texts }

StatusSessions ==
    { << Unit(range[1], range[2], file, Rows3,
              << IntType, GlobalDie(Str("a"), 16, 1), FunctionF(<< >>) >>) >> :
        range \in Ranges, file \in { GoodFile, NewerFile, NoFile, ClosedFile } }

Roots == { "ok", "no_die", "no_tag", "other_tag", "no_attrlist" }

\* A unit some read of which fails, before a unit that reads well
FailureSessions ==
    { << RootUnit(root, Str("x.c"), Ptr(<< "dir" >>), << 2 >>, { << "dir" >> },
                  << 1 >>, << 5 >>, GoodFile, rows, kids),
         DataUnit(<< IntType, GlobalDie(Str("b"), 18, 1) >>) >> :
        root \in Roots, rows \in { NULL, Rows3 },
        kids \in { << >>, << FunctionF(<< >>) >> } }

\* Directories and filenames with parent-directory segments: /a/b/.., a/..,
\* /.., /a/b/../.., /a/../.., c:/a/.., /a/. and the filename ../x.c under /a/b
ParentPaths ==
    { [dir |-> dir, name |-> << "x.c" >>] :
        dir \in { << "/", "a", "/", "b", "/", ".." >>,
                  << "a", "/", ".." >>,
                  << "/", ".." >>,
                  << "/", "a", "/", "b", "/", "..", "/", ".." >>,
                  << "/", "a", "/", "..", "/", ".." >>,
                  << "c", ":", "/", "a", "/", ".." >>,
                  << "/", "a", "/", "." >> } }
    \cup { [dir |-> << "/", "a", "/", "b" >>, name |-> << "..", "/", "x.c" >>] }

\* A unit without code and without source file at each of these paths
CleanUpSessions ==
    { << RootUnit("ok", Ptr(p.name), Ptr(p.dir), << >>, { }, << >>, << >>, NoFile,
                  NULL, << >>) >> : p \in ParentPaths }

\* A unit whose file has 20 lines and whose subprogram f is declared at no
\* line, at line 20 or at line 21, with line tables whose rows name lines of
\* the file or the lines 0 and 21
LineNumberSessions ==
    { << Unit(<< 1 >>, << 5 >>, GoodFile, rows,
              << SubprogramDie(Str("f"), << 1 >>, << 5 >>, line, << >>) >>) >> :
        line \in { << >>, << 20 >>, << 21 >> },
        rows \in { Rows3, Ptr(<< Row(1, 0), Row(2, 20), Row(3, 21) >>) } }

FilePrograms ==
    (BOOLEAN \X (PathSessions \cup StatusSessions \cup FailureSessions
                    \cup CleanUpSessions))
        \cup ({ TRUE } \X (TextSessions \cup LineNumberSessions))

\* The variable names asked for
QueriedNames == << << "a" >>, << "b" >>, << "q" >> >>

InitFiles ==
    /\ \E p \in FilePrograms : win32 = p[1] /\ session = p[2]
    /\ LibDwarf = DW_DLV_NO_ENTRY
    /\ NbCU = 0
    /\ PtrCU = << >>
    /\ PtrCUState = "null"
    /\ ListSearchPaths = NULL
    /\ NbSearchPaths = 0
    /\ heap = 0
    /\ fault = "none"
    /\ ret = Call("none", 0, 0, Result(NULL, FALSE))
    /\ loads = 0
    /\ resetRun = 0
    /\ firstGlobals = NULL

\* The search paths are set before the load
SetSearchPaths == loads = 0 /\ Set(SearchLists)

LoadOnce == loads = 0 /\ DWARFManager_ElfInit

GetFunctionName ==
    \E Adr \in 0..MaxAddr :
        Query("DWARFManager_GetFunctionName", Adr, 0,
              DWARFManager_GetFunctionName(PtrCU, Adr))

GetSymbolnameFromAdr ==
    \E Adr \in 0..MaxAddr :
        Query("DWARFManager_GetSymbolnameFromAdr", Adr, 0,
              DWARFManager_GetSymbolnameFromAdr(PtrCU, Adr))

GetFullSourceFilenameFromAdr ==
    \E Adr \in 0..MaxAddr :
        Query("DWARFManager_GetFullSourceFilenameFromAdr", Adr, 0,
              DWARFManager_GetFullSourceFilenameFromAdr(PtrCU, Adr))

\* idx is the place of the name in QueriedNames
GetGlobalVariableAdrFromName ==
    \E n \in 1..Len(QueriedNames) :
        Query("DWARFManager_GetGlobalVariableAdrFromName", 0, n,
              DWARFManager_GetGlobalVariableAdrFromName(PtrCU, QueriedNames[n]))

\* A query by unit index reads PtrCU[Index] whatever NbCU and PtrCU are:
\* undefined while PtrCU is NULL or freed, an indeterminate value beyond the
\* table.  adr is 1 for Used, 0 otherwise; reads tells that PtrCU is read.
IndexQuery(fn, Index, Used, reads, r) ==
    /\ fault = "none"
    /\ ret.fn \notin QueryNames
    /\ IF reads /\ PtrCUState # "live"
       THEN /\ fault' = "use after free"
            /\ ret' = Call(fn, B(Used), Index, Result(NULL, FALSE))
       ELSE /\ fault' = fault
            /\ \E g \in (IF r.oob THEN Indeterminate ELSE { r.val }) :
                 ret' = Call(fn, B(Used), Index, Result(g, r.oob))
    /\ UNCHANGED << win32, session, LibDwarf, NbCU, PtrCU, PtrCUState,
                    ListSearchPaths, NbSearchPaths, heap, loads, resetRun,
                    firstGlobals >>

GetSrcNbListPtrFromIndex ==
    \E Index \in 0..MaxUnits, Used \in BOOLEAN :
        IndexQuery("DWARFManager_GetSrcNbListPtrFromIndex", Index, Used, TRUE,
                   DWARFManager_GetSrcNbListPtrFromIndex(PtrCU, Index, Used))

GetSrcNumLinesPtrFromIndex ==
    \E Index \in 0..MaxUnits, Used \in BOOLEAN :
        IndexQuery("DWARFManager_GetSrcNumLinesPtrFromIndex", Index, Used, Used,
                   DWARFManager_GetSrcNumLinesPtrFromIndex(PtrCU, Index, Used))

GetSrcListPtrFromIndex ==
    \E Index \in 0..MaxUnits, Used \in BOOLEAN :
        IndexQuery("DWARFManager_GetSrcListPtrFromIndex", Index, Used, TRUE,
                   DWARFManager_GetSrcListPtrFromIndex(PtrCU, Index, Used))

GetSrcLanguageFromIndex ==
    \E Index \in 0..MaxUnits :
        IndexQuery("DWARFManager_GetSrcLanguageFromIndex", Index, FALSE, TRUE,
                   DWARFManager_GetSrcLanguageFromIndex(PtrCU, Index))

GetNumFullSourceFilename ==
    \E Index \in 0..MaxUnits :
        IndexQuery("DWARFManager_GetNumFullSourceFilename", Index, FALSE, TRUE,
                   DWARFManager_GetNumFullSourceFilename(PtrCU, Index))

GetNumSourceFilename ==
    \E Index \in 0..MaxUnits :
        IndexQuery("DWARFManager_GetNumSourceFilename", Index, FALSE, TRUE,
                   DWARFManager_GetNumSourceFilename(PtrCU, Index))

NextFiles ==
    \/ SetSearchPaths
    \/ LoadOnce
    \/ GetFunctionName
    \/ GetSymbolnameFromAdr
    \/ GetFullSourceFilenameFromAdr
    \/ GetGlobalVariableAdrFromName
    \/ GetSrcNbListPtrFromIndex
    \/ GetSrcNumLinesPtrFromIndex
    \/ GetSrcListPtrFromIndex
    \/ GetSrcLanguageFromIndex
    \/ GetNumFullSourceFilename
    \/ GetNumSourceFilename
    \/ GetNbSources

SpecFiles == InitFiles /\ [][NextFiles]_vars

----------------------------------------------------------------------------
\* The location blocks: executables of one unit with a unit-scope variable a
\* and, in the subprogram f, a variable or formal parameter p, whose
\* DW_AT_location blocks differ in length and bytes

\* DW_OP_addr (3) with a 4-byte address, and blocks of other lengths
GlobalBlocks ==
    { << 3, b1, b2, 0, b4 >> : b1 \in { 0, 1, 127, 128, 255 }, b2 \in { 0, 255 },
                               b4 \in { 0, 16 } }
    \cup { << 3 >>, << 3, 16 >>, << 3, 0, 0, 16 >>, << 3, 0, 0, 0, 0, 16 >> }

\* DW_OP_fbreg (145) with a LEB128 operand of 0 to 5 bytes, and DW_OP_addr
LocalBlocks ==
    { << 145 >>, << 145, 4 >>, << 145, 124 >>, << 145, 129, 1 >>, << 145, 255, 127 >>,
      << 145, 128, 128, 64 >>, << 145, 255, 255, 255, 127 >>,
      << 145, 128, 128, 128, 128, 1 >>, << 3, 0, 0, 0, 16 >> }

LocationSessions ==
    { << Unit(<< 1 >>, << 5 >>, NoFile, NULL,
              << IntType,
                 VariableDie(DW_TAG_variable, Str("a"), Ptr(gb), << 1 >>),
                 FunctionF(<< VariableDie(tag, Str("p"), Ptr(lb), << 1 >>) >>) >>) >> :
        gb \in GlobalBlocks, lb \in LocalBlocks,
        tag \in { DW_TAG_variable, DW_TAG_formal_parameter } }

InitLocations ==
    /\ win32 = TRUE
    /\ session \in LocationSessions
    /\ LibDwarf = DW_DLV_NO_ENTRY
    /\ NbCU = 0
    /\ PtrCU = << >>
    /\ PtrCUState = "null"
    /\ ListSearchPaths = NULL
    /\ NbSearchPaths = 0
    /\ heap = 0
    /\ fault = "none"
    /\ ret = Call("none", 0, 0, Result(NULL, FALSE))
    /\ loads = 0
    /\ resetRun = 0
    /\ firstGlobals = NULL

NextLocations ==
    \/ LoadOnce
    \/ GetGlobalVariableAdrFromName

SpecLocations == InitLocations /\ [][NextLocations]_vars

----------------------------------------------------------------------------
\* Properties

IsCall(fn) == ret.fn = fn /\ fault = "none"

\* The line of the record of rows with the greatest address not exceeding A
RowsNotAfter(rows, A) == { k \in 1..Len(rows) : rows[k].StartPC <= A }

NearestLine(rows, A) ==
    LET k == CHOOSE k \in RowsNotAfter(rows, A) :
                 \A m \in RowsNotAfter(rows, A) : rows[m].StartPC <= rows[k].StartPC
    IN rows[k].NumLineSrc

\* The subprogram of the claim C1 for the address of the last call, when the
\* address is in a unit and in one of its subprograms, is not the
\* subprogram's start and has a line record at or before it
LineCase ==
    /\ IsCall("DWARFManager_GetNumLineFromAdr")
    /\ ret.idx = 0
    /\ PtrCUState = "live"
    /\ ~BuildUB(PtrCU)
    /\ LET s == SubProgOfAdr(PtrCU, ret.adr, 1, 1) IN
       /\ s # << >>
       /\ PtrCU[s[1]].PtrSubProgs[s[2]].StartPC # ret.adr
       /\ RowsNotAfter(PtrCU[s[1]].PtrSubProgs[s[2]].PtrLinesSrc, ret.adr) # {}

\* C1: for an address inside a unit and one of its subprograms, other than the
\* subprogram's start, DWARFManager_GetNumLineFromAdr(A, 0) returns the line
\* of the subprogram's line record with the greatest address not exceeding A,
\* the last record's line when A is beyond every recorded address.
C1_NearestLineNotExceeding ==
    LineCase =>
        LET s == SubProgOfAdr(PtrCU, ret.adr, 1, 1) IN
        /\ ~ret.oob
        /\ ret.val = NearestLine(PtrCU[s[1]].PtrSubProgs[s[2]].PtrLinesSrc, ret.adr)

\* The table [(1,10), (2,12), (3,15)] in f = [1, 5), queried at 4: the
\* example of the claim with addresses 0x1000.. scaled to 1..
C1_OvershootReached ==
    /\ LineCase
    /\ ret.adr = 4
    /\ LET s == SubProgOfAdr(PtrCU, ret.adr, 1, 1) IN
       Len(PtrCU[s[1]].PtrSubProgs[s[2]].PtrLinesSrc) = 3
    /\ ret.val = 0

\* C2: DWARFManager_Reset called twice in a row after a successful load is
\* safe: after each of the two calls the model is empty (the unit count
\* DWARFManager_GetNbSources returns is 0), and the second call releases
\* nothing again and returns true.
C2_ResetTwiceLeavesEmpty ==
    (ret.fn = "DWARFManager_Reset" /\ resetRun \in { 2, 3 }) =>
        /\ fault = "none"
        /\ DWARFManager_GetNbSources(NbCU).val = 0
        /\ resetRun = 3 => ret.val = TRUE

C2_FirstResetReached ==
    /\ IsCall("DWARFManager_Reset")
    /\ resetRun = 2
    /\ ret.val = TRUE
    /\ NbCU = -1

\* C3: after DWARFManager_Reset or DWARFManager_Close returns true following
\* a load, every block allocated during the build has been released, the
\* nested member Variables and their tables included.
C3_TeardownReleasesAll ==
    (/\ ret.fn \in { "DWARFManager_Reset", "DWARFManager_Close" }
     /\ fault = "none"
     /\ resetRun = 2
     /\ loads = 1
     /\ ret.val = TRUE) => heap = 0

C3_LeakReached ==
    /\ IsCall("DWARFManager_Close")
    /\ resetRun = 2
    /\ loads = 1
    /\ ret.val = TRUE
    /\ heap > 0

\* C4: after DWARFManager_Init returns, whatever was called before, the unit
\* count is 0, no session is recorded as loaded and the search-path list is
\* empty.
C4_InitResetsAllState ==
    ret.fn = "DWARFManager_Init" =>
        /\ NbCU = 0
        /\ LibDwarf # DW_DLV_OK
        /\ ListSearchPaths = NULL
        /\ NbSearchPaths = 0

C4_InitAfterLoadReached ==
    /\ IsCall("DWARFManager_Init")
    /\ PtrCUState = "live"
    /\ NbCU > 0
    /\ heap > 0

\* C5: after load no Variable of the model lacks a name and no Variable
\* located by an address has address 0: the globals of every unit and the
\* parameters and locals of every subprogram.
C5_NoNamelessOrNullVariable ==
    (PtrCUState = "live" /\ ~BuildUB(PtrCU)) =>
        \A i \in 1..Len(PtrCU) :
            /\ \A k \in 1..Len(PtrCU[i].PtrVariables) :
                 /\ PtrCU[i].PtrVariables[k].PtrName # NULL
                 /\ PtrCU[i].PtrVariables[k].Addr # 0
            /\ \A j \in 1..Len(PtrCU[i].PtrSubProgs) :
                 \A k \in 1..Len(PtrCU[i].PtrSubProgs[j].PtrVariables) :
                     PtrCU[i].PtrSubProgs[j].PtrVariables[k].PtrName # NULL

C5_NamelessLocalReached ==
    /\ PtrCUState = "live"
    /\ ~BuildUB(PtrCU)
    /\ \E i \in 1..Len(PtrCU) : \E j \in 1..Len(PtrCU[i].PtrSubProgs) :
         \E k \in 1..Len(PtrCU[i].PtrSubProgs[j].PtrVariables) :
             PtrCU[i].PtrSubProgs[j].PtrVariables[k].PtrName = NULL

\* C6: after load every unit has LowPC <= HighPC and every subprogram with
\* code has its range inside the unit's [LowPC, HighPC), also when the
\* unit's range was taken from its first and last used-line addresses.  It
\* is stated for the units whose line table was loaded.
C6_SubProgramsInsideUnit ==
    (PtrCUState = "live" /\ ~BuildUB(PtrCU)) =>
        \A i \in 1..Len(PtrCU) :
            PtrCU[i].PtrUsedLinesSrc # NULL =>
                /\ PtrCU[i].LowPC <= PtrCU[i].HighPC
                /\ \A j \in 1..Len(PtrCU[i].PtrSubProgs) :
                     LET sp == PtrCU[i].PtrSubProgs[j] IN
                     sp.LowPC < sp.HighPC =>
                         PtrCU[i].LowPC <= sp.LowPC /\ sp.HighPC <= PtrCU[i].HighPC

C6_DerivedRangeReached ==
    /\ PtrCUState = "live"
    /\ ~BuildUB(PtrCU)
    /\ \E i \in 1..Len(PtrCU) :
         /\ session[i].low_pc = << >>
         /\ PtrCU[i].PtrUsedLinesSrc # NULL
         /\ PtrCU[i].LowPC = 1
         /\ PtrCU[i].HighPC = 3
         /\ \E j \in 1..Len(PtrCU[i].PtrSubProgs) : PtrCU[i].PtrSubProgs[j].HighPC = 5

\* The Variables of the table: globals, locals, and their nested members
NestedOf(v) ==
    IF v.TabVariables = NULL THEN { }
    ELSE { Deref(v.TabVariables)[k] : k \in 1..Len(Deref(v.TabVariables)) }

TopVariablesOf(cus) ==
    UNION { { cus[i].PtrVariables[k] : k \in 1..Len(cus[i].PtrVariables) }
            \cup UNION { { cus[i].PtrSubProgs[j].PtrVariables[k] :
                             k \in 1..Len(cus[i].PtrSubProgs[j].PtrVariables) } :
                         j \in 1..Len(cus[i].PtrSubProgs) } :
            i \in 1..Len(cus) }

VariablesOf(cus) ==
    TopVariablesOf(cus) \cup UNION { NestedOf(v) : v \in TopVariablesOf(cus) }

HasTypeName(v) == v.PtrTypeName # NULL /\ Deref(v.PtrTypeName) # << >>

SelectsList(cus, Adr) == Adr = 0 \/ SubProgOfAdr(cus, Adr, 1, 1) # << >>

SelectedCount(cus, Adr) ==
    IF Adr = 0 THEN Len(Flatten([i \in 1..Len(cus) |-> cus[i].PtrVariables]))
    ELSE LET s == SubProgOfAdr(cus, Adr, 1, 1) IN
         IF s = << >> THEN 0 ELSE Len(cus[s[1]].PtrSubProgs[s[2]].PtrVariables)

\* C8: DWARFManager_GetInfosVariable(Adr, Index) returns NULL and indexes
\* outside no variable list when Index is 0 or above the number of Variables
\* of the selected list, and when a non-zero Adr lies in no subprogram.
C8_MissReturnsNull ==
    (/\ IsCall("DWARFManager_GetInfosVariable")
     /\ \/ ret.idx = 0
        \/ ret.idx > SelectedCount(PtrCU, ret.adr)
        \/ ~SelectsList(PtrCU, ret.adr)) => (ret.val = NULL /\ ~ret.oob)

C8_IndexZeroReached ==
    /\ IsCall("DWARFManager_GetInfosVariable")
    /\ ret.adr = 0
    /\ ret.idx = 0
    /\ ret.val # NULL
    /\ ret.oob

\* The places of the global Variables, unit after unit
FlatGlobals(cus) ==
    Flatten([i \in 1..Len(cus) |->
                [k \in 1..Len(cus[i].PtrVariables) |-> << i, 0, k >>]])

\* C9: for 1 <= k <= DWARFManager_GetNbVariables(0), DWARFManager_
\* GetInfosVariable(0, k) is the k-th global Variable of the units' global
\* lists put end to end in unit order, and DWARFManager_GetNbVariables(0) is
\* the sum of the units' global counts.
C9_FlatGlobalIndex ==
    /\ (/\ IsCall("DWARFManager_GetInfosVariable")
        /\ ret.adr = 0
        /\ ret.idx \in 1..Len(FlatGlobals(PtrCU)))
         => (ret.val # NULL /\ ~ret.oob /\ Deref(ret.val) = FlatGlobals(PtrCU)[ret.idx])
    /\ (IsCall("DWARFManager_GetNbVariables") /\ ret.adr = 0)
         => ret.val = Len(FlatGlobals(PtrCU))

\* The third global is the first one of the second unit
C9_SecondUnitReached ==
    /\ IsCall("DWARFManager_GetInfosVariable")
    /\ ret.adr = 0
    /\ ret.idx = 3
    /\ ret.val = Ptr(<< 2, 0, 1 >>)

\* What GlobalsSnapshot keeps of a Variable
Identity(v) == << v.PtrName, v.Addr, v.TypeOffset, v.TypeTag, v.PtrTypeName >>

\* C10: for the same executable, after any number of loads following the
\* first (each after a reset or not), the query for global index k returns a
\* Variable with the name, address and type it had after the first load, and
\* the number of globals is the same.
C10_GlobalIndexStable ==
    (firstGlobals # NULL /\ resetRun = 1) =>
        /\ (/\ IsCall("DWARFManager_GetInfosVariable")
            /\ ret.adr = 0
            /\ ret.idx \in 1..Len(Deref(firstGlobals)))
             => /\ ret.val # NULL
                /\ ~ret.oob
                /\ Identity(ListOf(PtrCU, Deref(ret.val))[Deref(ret.val)[3]])
                     = Deref(firstGlobals)[ret.idx]
        /\ (IsCall("DWARFManager_GetNbVariables") /\ ret.adr = 0)
             => ret.val = Len(Deref(firstGlobals))

\* A second load after a reset that released the first table
C10_ReloadReached ==
    /\ IsCall("DWARFManager_GetInfosVariable")
    /\ resetRun = 1
    /\ loads = 2
    /\ heap = TableBlocks(PtrCU)
    /\ ret.adr = 0
    /\ ret.idx = 2
    /\ ret.val # NULL

\* A load has built the table the model holds
TableBuilt == PtrCUState = "live" /\ fault = "none"

\* The one unit of the session records no directory
SearchedUnit == Len(session) = 1 /\ session[1].root = "ok" /\ session[1].comp_dir = NULL

\* C11: a unit that records no directory gets, from the search paths, a
\* directory under which its file exists; with the paths /a, /b and the file
\* under /b only, the directory is /b and the full filename /b/x.c written
\* with the separators of the host.
C11_SearchedDirectoryHoldsFile ==
    (TableBuilt /\ SearchedUnit) =>
        LET dir == Deref(PtrCU[1].PtrSourceFileDirectory) IN
        /\ dir # << "." >> => dir \in session[1].found
        /\ (PathsOf(ListSearchPaths, NbSearchPaths) = << DirA, DirB >>
              /\ session[1].found = { DirB })
           => /\ dir = DirB
              /\ PtrCU[1].PtrFullFilename =
                   Ptr(DWARFManager_ConformSlachesBackslashes(
                           DirB \o << "/", "x.c" >>, win32))

\* Without _WIN32, the paths /a, /b and the file under /b only: the unit's
\* directory is /a
C11_AbsentDirectoryReached ==
    /\ TableBuilt /\ SearchedUnit /\ ~win32
    /\ PathsOf(ListSearchPaths, NbSearchPaths) = << DirA, DirB >>
    /\ session[1].found = { DirB }
    /\ PtrCU[1].PtrSourceFileDirectory = Ptr(DirA)
    /\ PtrCU[1].PtrFullFilename = Ptr(DirA \o << "/", "x.c" >>)

\* The file the one unit of the session resolves to
ResolvedFile == FileOf(session[1], PtrCU[1])

\* The lines of a text: its line terminators, and a last line without one
LinesOf(text) ==
    LET t == SelectSeq(text, LAMBDA c : c # "\r") IN
    Cardinality({ k \in 1..Len(t) : t[k] = "\n" })
        + (IF t # << >> /\ t[Len(t)] # "\n" THEN 1 ELSE 0)

ReadableFile(f) == f.stat /\ ~f.newer /\ f.open /\ Len(f.text) > 0

\* C12: a unit whose source file exists, opens, is not empty and is not newer
\* than the executable ends the load with the status Ok and one cached line
\* per line of the file.
C12_ReadableFileIsCached ==
    (TableBuilt /\ Len(session) = 1 /\ session[1].root = "ok"
        /\ ReadableFile(ResolvedFile))
    => /\ PtrCU[1].Status = DWARFSTATUS_OK
       /\ PtrCU[1].NbLinesLoadSrc = LinesOf(ResolvedFile.text)
       /\ PtrCU[1].PtrLinesLoadSrc = Ptr(LinesOf(ResolvedFile.text))

\* Without _WIN32 a file that opens leaves the unit with the status NoFile
\* and no cached line
C12_OpenedFileRejectedReached ==
    /\ TableBuilt /\ Len(session) = 1 /\ session[1].root = "ok" /\ ~win32
    /\ ReadableFile(ResolvedFile)
    /\ PtrCU[1].Status = DWARFSTATUS_NOFILE
    /\ PtrCU[1].NbLinesLoadSrc = 0

\* The one unit of the session is outdated: its file answers stat with a
\* modification time later than the executable's
OutdatedUnit ==
    /\ PtrCUState = "live" /\ Len(session) = 1 /\ session[1].root = "ok"
    /\ ResolvedFile.stat /\ ResolvedFile.newer

\* The subprogram entries of the unit's root whose range holds Adr
EntriesAt(Adr) ==
    { k \in 1..Len(session[1].children) :
        LET d == session[1].children[k] IN
        /\ d.tag = DW_TAG_subprogram_die
        /\ d.low_pc # << >> /\ d.high_pc # << >>
        /\ d.low_pc[1] <= Adr /\ Adr < d.high_pc[1] }

\* The variable entries of the unit's root with the n-th queried name
EntriesNamed(n) ==
    { k \in 1..Len(session[1].children) :
        LET d == session[1].children[k] IN
        d.tag = DW_TAG_variable /\ d.name = Ptr(QueriedNames[n]) }

\* C13: an outdated unit has the status OutdatedFile and no cached line, and
\* the queries by address and by name still return what its entries hold:
\* the name of the function at an address, the name of the function that
\* starts at an address, the full filename and the address of a global.
C13_OutdatedUnitStillAnswers ==
    OutdatedUnit =>
        /\ PtrCU[1].Status = DWARFSTATUS_OUTDATEDFILE
        /\ PtrCU[1].NbLinesLoadSrc = 0
        /\ (IsCall("DWARFManager_GetFunctionName") /\ EntriesAt(ret.adr) # { })
           => \E k \in EntriesAt(ret.adr) : ret.val = session[1].children[k].name
        /\ (IsCall("DWARFManager_GetSymbolnameFromAdr") /\ EntriesAt(ret.adr) # { })
           => \A k \in EntriesAt(ret.adr) :
                 session[1].children[k].low_pc[1] = ret.adr
                    => ret.val = session[1].children[k].name
        /\ (IsCall("DWARFManager_GetFullSourceFilenameFromAdr")
               /\ EntriesAt(ret.adr) # { })
           => /\ ret.val.name = PtrCU[1].PtrFullFilename
              /\ ret.val.Status = DWARFSTATUS_OUTDATEDFILE
        /\ (IsCall("DWARFManager_GetGlobalVariableAdrFromName")
               /\ EntriesNamed(ret.idx) # { })
           => \E k \in EntriesNamed(ret.idx) :
                 ret.val = BigEndian32(Deref(session[1].children[k].block))

\* An outdated unit whose root gives no range: the function at address 1 has
\* a name and DWARFManager_GetFunctionName(1) returns NULL
C13_NamelessAnswerReached ==
    /\ OutdatedUnit
    /\ session[1].low_pc = << >>
    /\ PtrCU[1].Status = DWARFSTATUS_OUTDATEDFILE
    /\ IsCall("DWARFManager_GetFunctionName") /\ ret.adr = 1
    /\ EntriesAt(1) # { }
    /\ ret.val = NULL

\* The records a type chain visits from offset off: the record at off, then
\* the record its type offset names, and so on
RECURSIVE TypePath(_, _, _)
TypePath(types, off, fuel) ==
    LET at == { j \in 1..Len(types) : types[j].Offset = off } IN
    IF fuel = 0 \/ off = 0 \/ at = { } THEN << >>
    ELSE LET T == types[CHOOSE j \in at : \A k \in at : j <= k] IN
         << T >> \o TypePath(types, T.TypeOffset, fuel - 1)

IsRecord(T) == T.Tag \in { DW_TAG_structure_type, DW_TAG_union_type }

\* The top-level Variables of the one unit, global and local
UnitVariables == TopVariablesOf(PtrCU)

PathOf(v) == TypePath(PtrCU[1].PtrTypes, v.TypeOffset, Len(PtrCU[1].PtrTypes))

\* C14: a Variable with a non-zero location operation whose type chain ends
\* at a struct or union record with N members has exactly N nested
\* Variables, in member order, the i-th with the i-th member's name, type
\* offset and data-member-location.
C14_OneNestedVariablePerMember ==
    PtrCUState = "live" =>
        \A v \in UnitVariables :
            LET path == PathOf(v) IN
            (~v.ub /\ v.Op # 0 /\ path # << >> /\ IsRecord(path[Len(path)]))
            => LET members == path[Len(path)].PtrStructureMembers IN
               /\ v.NbTabVariables = Len(members)
               /\ v.TabVariables # NULL
               /\ Len(Deref(v.TabVariables)) = Len(members)
               /\ \A i \in 1..Len(members) :
                     /\ Deref(v.TabVariables)[i].PtrName = members[i].PtrName
                     /\ Deref(v.TabVariables)[i].TypeOffset = members[i].TypeOffset
                     /\ OffsetOf(Deref(v.TabVariables)[i]) = members[i].DataMemberLocation

\* struct S { int a; int b; } behind a typedef: the located Variable has the
\* nested Variables a at 0 and b at 4
C14_TwoMembersReached ==
    /\ PtrCUState = "live"
    /\ \E v \in UnitVariables :
         /\ ~v.ub /\ v.Op # 0 /\ Len(PathOf(v)) = 2
         /\ v.NbTabVariables = 2
         /\ Deref(v.TabVariables)[1].PtrName = Str("a")
         /\ OffsetOf(Deref(v.TabVariables)[1]) = 0
         /\ Deref(v.TabVariables)[2].PtrName = Str("b")
         /\ OffsetOf(Deref(v.TabVariables)[2]) = 4

\* How many times the piece x stands in the text
CountOf(text, x) == Cardinality({ k \in 1..Len(text) : text[k] = x })

\* The typedef records of a path, in order
TypedefsOf(path) == SelectSeq(path, LAMBDA T : T.Tag = DW_TAG_typedef)

\* The type chain of v goes through a named typedef and ends at a struct or
\* union record
TypedefOfRecord(v) ==
    LET path == PathOf(v) IN
    /\ ~v.ub
    /\ path # << >> /\ IsRecord(path[Len(path)])
    /\ TypedefsOf(path) # << >> /\ TypedefsOf(path)[1].PtrName # NULL

\* C15: for a variable whose type chain is a typedef T that leads to a struct
\* or union record, the rendered type name holds T exactly once, the name of
\* no typedef further down the chain, and never the record's own name.
C15_TypedefNameOnly ==
    PtrCUState = "live" =>
        \A v \in UnitVariables :
            TypedefOfRecord(v)
            => LET path == PathOf(v)
                   name == Deref(v.PtrTypeName)
                   T == Deref(TypedefsOf(path)[1].PtrName)[1]
               IN /\ CountOf(name, T) = 1
                  /\ \A k \in 2..Len(TypedefsOf(path)) :
                        LET U == TypedefsOf(path)[k].PtrName IN
                        (U # NULL /\ Deref(U)[1] # T) => CountOf(name, Deref(U)[1]) = 0
                  /\ LET S == path[Len(path)].PtrName IN
                     S # NULL => CountOf(name, Deref(S)[1]) = 0

\* T -> U -> struct S: the name is T
C15_SecondTypedefReached ==
    /\ PtrCUState = "live"
    /\ \E v \in UnitVariables :
         /\ TypedefOfRecord(v)
         /\ Len(TypedefsOf(PathOf(v))) = 2
         /\ TypedefsOf(PathOf(v))[2].PtrName = Str("U")
         /\ PathOf(v)[Len(PathOf(v))].PtrName = Str("S")
         /\ v.PtrTypeName = Ptr(<< "T" >>)

\* The tag a unit keeps: none when the root DIE or its tag cannot be read
TagOf(u) ==
    CASE u.root \in { "no_die", "no_tag" } -> NoTag
      [] u.root = "other_tag" -> "DW_TAG_partial_unit"
      [] OTHER -> "DW_TAG_compile_unit"

\* The subprogram and variable entries among the children of a unit
EntriesOf(u, tag) == SelectSeq(u.children, LAMBDA d : d.tag = tag)

NoSuchUnit ==
    /\ ret.fn \in IndexQueryNames
    /\ ~U32Less(ret.idx, NbCU) \/ PtrCUState # "live"

\* The queries by unit index that return a number
NumberQueryNames ==
    { "DWARFManager_GetSrcNbListPtrFromIndex", "DWARFManager_GetSrcLanguageFromIndex" }

\* C17: a query by unit index whose index names no unit reads outside no
\* unit table and returns a defined zero, or null for a pointer.
C17_NoUnitGivesNull ==
    NoSuchUnit => /\ fault = "none"
                  /\ ~ret.oob
                  /\ IF ret.fn \in NumberQueryNames THEN ret.val = 0
                     ELSE ret.val = NULL

\* Two units loaded and DWARFManager_GetNumFullSourceFilename(2): PtrCU[2] is
\* read beyond the table
C17_BeyondTableReached ==
    /\ NoSuchUnit /\ fault = "none"
    /\ PtrCUState = "live" /\ NbCU = 2 /\ ret.idx = 2
    /\ ret.fn = "DWARFManager_GetNumFullSourceFilename"
    /\ ret.oob

\* Address and line of each row of a list of line records
AddressLines(rows) == [k \in 1..Len(rows) |-> << rows[k].StartPC, rows[k].NumLineSrc >>]

\* The rows of the unit's line table that lie in [low, high) of a subprogram
RowsInside(cu, sp) ==
    IF cu.PtrUsedLinesSrc = NULL THEN << >>
    ELSE SelectSeq(Deref(cu.PtrUsedLinesSrc),
                   LAMBDA r : sp.LowPC <= r.StartPC /\ r.StartPC < sp.HighPC)

\* C18: after a load the line records of each subprogram are the rows of its
\* unit's line table whose address a has low <= a < high, in the order of the
\* table; a row at the address high is not among them.
C18_LineRecordsInsideRange ==
    (PtrCUState = "live" /\ ~BuildUB(PtrCU)) =>
        \A i \in 1..Len(PtrCU) : \A j \in 1..Len(PtrCU[i].PtrSubProgs) :
            AddressLines(PtrCU[i].PtrSubProgs[j].PtrLinesSrc)
                = AddressLines(RowsInside(PtrCU[i], PtrCU[i].PtrSubProgs[j]))

\* f spans [1, 5) and the line table has a row at address 5: the row is
\* among the line records of f
C18_RowAtHighReached ==
    /\ PtrCUState = "live" /\ ~BuildUB(PtrCU) /\ Len(PtrCU) = 1
    /\ Len(PtrCU[1].PtrSubProgs) = 1
    /\ PtrCU[1].PtrSubProgs[1].LowPC = 1 /\ PtrCU[1].PtrSubProgs[1].HighPC = 5
    /\ \E k \in 1..Len(PtrCU[1].PtrSubProgs[1].PtrLinesSrc) :
          PtrCU[1].PtrSubProgs[1].PtrLinesSrc[k].StartPC = 5

\* The places in the search-path list under which the unit's file exists
MatchingPaths ==
    { k \in 1..NbSearchPaths : PathsOf(ListSearchPaths, NbSearchPaths)[k] \in session[1].found }

\* C19: a unit that records no directory gets the first search path, in list
\* order, under which its file is found, and "." when there is none.
C19_FirstMatchingPath ==
    (TableBuilt /\ SearchedUnit) =>
        PtrCU[1].PtrSourceFileDirectory =
            IF MatchingPaths = { } THEN Ptr(<< "." >>)
            ELSE Ptr(PathsOf(ListSearchPaths, NbSearchPaths)[
                        CHOOSE k \in MatchingPaths : \A m \in MatchingPaths : k <= m])

\* With _WIN32, the paths /a, /b and the file under both: the directory is /b
C19_LastMatchReached ==
    /\ TableBuilt /\ SearchedUnit /\ win32
    /\ PathsOf(ListSearchPaths, NbSearchPaths) = << DirA, DirB >>
    /\ session[1].found = { DirA, DirB }
    /\ PtrCU[1].PtrSourceFileDirectory = Ptr(DirB)

\* The rows of a unit's used-line index
UsedRows(cu) == IF cu.PtrUsedLinesSrc = NULL THEN << >> ELSE Deref(cu.PtrUsedLinesSrc)

\* C20: every unit whose line table is read holds all its rows, in the order
\* of the session, in its used-line index, whatever the status of its source
\* file.
C20_UsedLinesWhateverStatus ==
    (PtrCUState = "live" /\ ~BuildUB(PtrCU)) =>
        \A i \in 1..Len(PtrCU) :
            (session[i].root \notin { "no_die", "no_tag" } /\ session[i].srclines # NULL)
            => /\ AddressLines(UsedRows(PtrCU[i])) = AddressLines(Deref(session[i].srclines))
               /\ PtrCU[i].NbUsedLinesSrc = Len(Deref(session[i].srclines))

\* A unit whose source file does not answer stat and whose line table has
\* rows: its used-line index is empty
C20_NoRowsWithoutFileReached ==
    /\ PtrCUState = "live" /\ ~BuildUB(PtrCU) /\ Len(PtrCU) = 1
    /\ PtrCU[1].Status = DWARFSTATUS_NOFILEINFO
    /\ session[1].srclines # NULL /\ Len(Deref(session[1].srclines)) = 3
    /\ PtrCU[1].PtrUsedLinesSrc = NULL
    /\ PtrCU[1].NbUsedLinesSrc = 0

\* The type DIEs of a unit of the session, in order
TypeDiesOf(u) == SelectSeq(u.children, LAMBDA d : d.tag \in TypeDieTags)

\* The number of records met from offset off by following the type offsets,
\* counted up to fuel
RECURSIVE ChainLength(_, _, _)
ChainLength(dies, off, fuel) ==
    LET at == { j \in 1..Len(dies) : dies[j].offset = off } IN
    IF fuel = 0 \/ off = 0 \/ at = { } THEN 0
    ELSE 1 + ChainLength(dies, AttrOr0(dies[CHOOSE j \in at : \A k \in at : j <= k].type),
                         fuel - 1)

\* Some record of the list leads back to itself through the type offsets
HasCycle(dies) ==
    \E j \in 1..Len(dies) : ChainLength(dies, dies[j].offset, Len(dies) + 1) > Len(dies)

\* The tag bit the case of a record sets
BitOf(tag) ==
    CASE tag = DW_TAG_structure_type -> { TypeTag_structure }
      [] tag = DW_TAG_union_type -> { TypeTag_union }
      [] tag = DW_TAG_pointer_type -> { TypeTag_pointer }
      [] tag = DW_TAG_subrange_type -> { TypeTag_subrange }
      [] tag = DW_TAG_array_type -> { TypeTag_arraytype }
      [] tag = DW_TAG_const_type -> { TypeTag_consttype }
      [] tag = DW_TAG_typedef -> { TypeTag_typedef }
      [] tag = DW_TAG_enumeration_type -> { TypeTag_enumeration_type }
      [] tag = DW_TAG_subroutine_type -> { TypeTag_subroutine_type }
      [] OTHER -> { }

BitsOf(path) == UNION { BitOf(path[k].Tag) : k \in 1..Len(path) }

\* C21: when the type list of the unit has no type-offset cycle the load
\* returns (no resolution runs for ever), and every Variable carries the tag
\* bits of exactly the records of its chain: the scan starts over only for a
\* record that names a further offset and the walk ends at the first record
\* that names none.
C21_AcyclicResolutionTerminates ==
    (ret.fn = "DWARFManager_ElfInit" /\ ~HasCycle(TypeDiesOf(session[1])))
    => /\ fault # "hang"
       /\ PtrCUState = "live" =>
            \A v \in UnitVariables : v.TypeTag = BitsOf(PathOf(v))

\* pointer -> typedef -> typedef -> union: three restarts, then the walk ends
C21_FourRecordsReached ==
    /\ PtrCUState = "live" /\ fault = "none"
    /\ ~HasCycle(TypeDiesOf(session[1]))
    /\ \E v \in UnitVariables :
         /\ Len(PathOf(v)) = 4
         /\ v.TypeTag = { TypeTag_pointer, TypeTag_typedef, TypeTag_union }

\* Some struct or union record of the list has a member whose type chain
\* leads to a record that has that record among its members' types again
RECURSIVE MemberReach(_, _, _)
MemberReach(types, offs, fuel) ==
    IF fuel = 0 THEN offs
    ELSE MemberReach(types,
             offs \cup UNION { { T.PtrStructureMembers[k].TypeOffset :
                                   k \in 1..Len(T.PtrStructureMembers) } :
                               T \in { types[j] : j \in { i \in 1..Len(types) :
                                                            types[i].Offset \in offs } } }
                  \cup { types[j].TypeOffset : j \in { i \in 1..Len(types) :
                                                         types[i].Offset \in offs } },
             fuel - 1)

SelfReferential(types) ==
    \E j \in 1..Len(types) :
        /\ IsRecord(types[j])
        /\ types[j].Offset \in
             MemberReach(types,
                         { types[j].PtrStructureMembers[k].TypeOffset :
                             k \in 1..Len(types[j].PtrStructureMembers) },
                         Len(types))

\* C22: member expansion does not recurse without bound: a nested Variable
\* is allocated with a zero operation, so it is never expanded itself, and
\* the nesting depth under a Variable is at most one, also when a struct or
\* union reaches itself through its members.
C22_NestingDepthBounded ==
    /\ (ret.fn = "DWARFManager_ElfInit" /\ ~HasCycle(TypeDiesOf(session[1])))
       => fault # "hang"
    /\ PtrCUState = "live" =>
         \A v \in UnitVariables : \A n \in NestedOf(v) :
             /\ n.Op = 0
             /\ n.TabVariables = NULL
             /\ n.NbTabVariables = 0

\* struct A { B m; } with union B { A m; }: the located Variable of type A
\* has the one nested Variable m, a union that is not expanded
C22_MutualRecordsReached ==
    /\ PtrCUState = "live" /\ fault = "none"
    /\ SelfReferential(PtrCU[1].PtrTypes)
    /\ \E v \in UnitVariables :
         /\ v.Op # 0 /\ v.NbTabVariables = 1
         /\ TypeTag_structure \in v.TypeTag
         /\ \E n \in NestedOf(v) :
              /\ n.TypeTag = { TypeTag_union }
              /\ n.PtrTypeName = Ptr(<< "B" >>)
              /\ n.TabVariables = NULL

\* The pieces of a rendered type name that are no name of a type
Decorations == { "const ", "* ", "void* ", "[]", " (* ) ()" }

\* The places of a rendered name that hold the name of a base type, typedef,
\* struct or union
NamePlaces(name) == { k \in 1..Len(name) : name[k] \notin Decorations }

OnPath(v, tag) == \E k \in 1..Len(PathOf(v)) : PathOf(v)[k].Tag = tag

\* C23: a Variable with a const record on its type chain has the const tag
\* bit, and "const " stands in its rendered type name before every name of a
\* base type, typedef, struct or union.
C23_ConstBeforeTypeNames ==
    PtrCUState = "live" =>
        \A v \in UnitVariables :
            (~v.ub /\ OnPath(v, DW_TAG_const_type))
            => /\ TypeTag_consttype \in v.TypeTag
               /\ \E i \in 1..Len(Deref(v.PtrTypeName)) :
                     /\ Deref(v.PtrTypeName)[i] = "const "
                     /\ \A k \in NamePlaces(Deref(v.PtrTypeName)) : i < k

\* typedef T -> const: the rendered name is "Tconst "
C23_ConstAfterTypedefReached ==
    /\ PtrCUState = "live" /\ fault = "none"
    /\ \E v \in UnitVariables :
         /\ ~v.ub
         /\ Len(PathOf(v)) = 2
         /\ PathOf(v)[1].Tag = DW_TAG_typedef /\ PathOf(v)[2].Tag = DW_TAG_const_type
         /\ v.TypeTag = { TypeTag_typedef, TypeTag_consttype }
         /\ v.PtrTypeName = Ptr(<< "T", "const " >>)

\* The location block of the unit-scope variable of the session, and of the
\* variable or parameter of its subprogram
GlobalBlockOf(u) == Deref(u.children[2].block)
LocalEntryOf(u) == u.children[3].children[1]

\* The four bytes of a 32-bit pattern, most significant first
BytesOf(x) ==
    << (x \div 16777216) % 256, (x \div 65536) % 256, (x \div 256) % 256, x % 256 >>

\* C25: a unit-scope variable whose location block has length 5 has the
\* operation block[0] and the address b1*2^24 + b2*2^16 + b3*2^8 + b4, a
\* value of 0..2^32-1 (nothing set above bit 31); with a block of any other
\* length the address stays 0 and the variable is not in the unit's list.
C25_BigEndianAddress ==
    (PtrCUState = "live" /\ Len(session[1].children) = 3
        /\ session[1].children[2].tag = DW_TAG_variable
        /\ session[1].children[2].block # NULL)
    => LET b == GlobalBlockOf(session[1]) IN
       IF Len(b) = 5 /\ SubSeq(b, 2, 5) # << 0, 0, 0, 0 >>
       THEN /\ Len(PtrCU[1].PtrVariables) = 1
            /\ PtrCU[1].PtrVariables[1].Op = b[1]
            /\ BytesOf(PtrCU[1].PtrVariables[1].Addr) = SubSeq(b, 2, 5)
            /\ PtrCU[1].PtrVariables[1].AddrHigh = 0
       ELSE PtrCU[1].PtrVariables = << >>

\* The address 0x80000000 where size_t has 64 bits: 0xFFFFFFFF80000000
C25_SignExtendedReached ==
    /\ PtrCUState = "live" /\ fault = "none"
    /\ GlobalBlockOf(session[1]) = << 3, 128, 0, 0, 0 >>
    /\ Len(PtrCU[1].PtrVariables) = 1
    /\ BytesOf(PtrCU[1].PtrVariables[1].Addr) = << 128, 0, 0, 0 >>
    /\ PtrCU[1].PtrVariables[1].AddrHigh = -1

\* The bytes of the LEB128 number that starts the operand: up to the first
\* byte without the continuation bit
Number(operand) ==
    LET ends == { k \in 1..Len(operand) : operand[k] < 128 } IN
    IF ends = { } THEN operand
    ELSE SubSeq(operand, 1, CHOOSE k \in ends : \A m \in ends : k <= m)

\* 128 to the power n
RECURSIVE Power128(_)
Power128(n) == IF n = 0 THEN 1 ELSE 128 * Power128(n - 1)

\* The value of the low seven bits of the bytes, least significant first
RECURSIVE Septets(_, _)
Septets(number, k) ==
    IF k > Len(number) THEN 0
    ELSE (number[k] % 128) * Power128(k - 1) + Septets(number, k + 1)

UnsignedValue(operand) == Septets(Number(operand), 1)

\* Bit 6 of the last byte is the sign
SignedValue(operand) ==
    LET number == Number(operand) IN
    IF number[Len(number)] % 128 >= 64
    THEN Septets(number, 1) - Power128(Len(number))
    ELSE Septets(number, 1)

\* C26: the variable or formal parameter of a subprogram has the operation
\* block[0]; with a block of 2 to 5 bytes its frame Offset is the unsigned
\* LEB128 value of the bytes after the opcode for a formal parameter and the
\* signed LEB128 value for a variable; with a block of 1 byte or of more than
\* 5 the Offset stays 0.  The load completes in each case.
C26_FrameOffsetDecoding ==
    /\ (ret.fn = "DWARFManager_ElfInit" /\ LibDwarf = DW_DLV_OK
          /\ Len(session[1].children) = 3
          /\ session[1].children[3].tag = DW_TAG_subprogram_die)
       => (fault = "none" /\ PtrCUState = "live")
    /\ fault \notin { "crash", "hang" }
    /\ (PtrCUState = "live" /\ Len(session[1].children) = 3
          /\ session[1].children[3].tag = DW_TAG_subprogram_die
          /\ Len(session[1].children[3].children) = 1
          /\ LocalEntryOf(session[1]).block # NULL)
       => LET b == Deref(LocalEntryOf(session[1]).block)
              p == PtrCU[1].PtrSubProgs[1].PtrVariables[1]
          IN /\ Len(PtrCU[1].PtrSubProgs[1].PtrVariables) = 1
             /\ p.Op = b[1]
             /\ p.AddrHigh = 0
             /\ OffsetOf(p) =
                  IF Len(b) \in 2..5
                  THEN IF LocalEntryOf(session[1]).tag = DW_TAG_formal_parameter
                       THEN UnsignedValue(Tail(b))
                       ELSE SignedValue(Tail(b))
                  ELSE 0

\* DW_OP_fbreg with the operand 7F: the variable lies at -1
C26_NegativeOffsetReached ==
    /\ PtrCUState = "live" /\ fault = "none"
    /\ LocalEntryOf(session[1]).tag = DW_TAG_variable
    /\ LocalEntryOf(session[1]).block = Ptr(<< 145, 255, 127 >>)
    /\ OffsetOf(PtrCU[1].PtrSubProgs[1].PtrVariables[1]) = -1
    /\ PtrCU[1].PtrSubProgs[1].PtrVariables[1].Op = 145

\* The kinds of record a pointer's chain ends at
PointeeKinds ==
    { DW_TAG_base_type, DW_TAG_structure_type, DW_TAG_union_type,
      DW_TAG_enumeration_type, DW_TAG_subrange_type, DW_TAG_typedef,
      DW_TAG_subroutine_type }

\* The chain of v has a pointer record and ends at a record without further
\* type offset: a pointer (to void) or one of the pointee kinds
PointerChain(v) ==
    LET path == PathOf(v) IN
    /\ ~v.ub
    /\ OnPath(v, DW_TAG_pointer_type)
    /\ path[Len(path)].TypeOffset = 0
    /\ path[Len(path)].Tag \in PointeeKinds \cup { DW_TAG_pointer_type }

\* C24: a Variable with the pointer tag bit has the pointer suffix in its
\* rendered type name: "void* " when the pointer record names no further
\* type, "* " after the pointee's rendering otherwise, whatever the kind of
\* the pointee record.
C24_PointerSuffix ==
    PtrCUState = "live" =>
        \A v \in UnitVariables :
            (TypeTag_pointer \in v.TypeTag /\ PointerChain(v))
            => LET path == PathOf(v)
                   name == Deref(v.PtrTypeName)
               IN IF path[Len(path)].Tag = DW_TAG_pointer_type
                  THEN name # << >> /\ name[Len(name)] = "void* "
                  ELSE name # << >> /\ name[Len(name)] = "* "

\* pointer -> enumeration: the pointer bit is set and the name is empty
C24_PointerToEnumReached ==
    /\ PtrCUState = "live" /\ fault = "none"
    /\ \E v \in UnitVariables :
         /\ Len(PathOf(v)) = 2
         /\ PathOf(v)[1].Tag = DW_TAG_pointer_type
         /\ PathOf(v)[2].Tag = DW_TAG_enumeration_type
         /\ v.TypeTag = { TypeTag_pointer, TypeTag_enumeration_type }
         /\ v.PtrTypeName = Ptr(<< >>)

\* The "/../" of the build
ParentSegment == << Separator(win32), "..", Separator(win32) >>

\* C27: the clean-up of a full filename with parent-directory segments ends,
\* reads and writes nothing before the first character of the filename, and
\* leaves a filename without "/../" that still ends with the file's name.
C27_CleanUpStaysInsidePath ==
    session \in CleanUpSessions
    => /\ fault \notin { "crash", "hang" }
       /\ PtrCUState = "live" =>
            /\ ~PtrCU[1].ub
            /\ StrStr(Deref(PtrCU[1].PtrFullFilename), ParentSegment, 1) = 0
            /\ Deref(PtrCU[1].PtrFullFilename)[Len(Deref(PtrCU[1].PtrFullFilename))] = "x.c"

\* a/../x.c without _WIN32: the scan back for '/' from the "/../" passes the
\* 'a' and leaves the block of the filename
C27_ScanLeavesFilenameReached ==
    /\ ~win32
    /\ session \in CleanUpSessions
    /\ session[1].comp_dir = Ptr(<< "a", "/", ".." >>)
    /\ PtrCUState = "live"
    /\ PtrCU[1].ub
    /\ PtrCU[1].PtrFullFilename = Ptr(<< "a", "/", "..", "/", "x.c" >>)

\* The subprogram entries of a unit of the session, in order
SubprogramDiesOf(u) == SelectSeq(u.children, LAMBDA d : d.tag = DW_TAG_subprogram_die)

\* C28: a subprogram entry without low_pc or without high_pc attribute has
\* no LineRecords: none is selected for it by the PC range of the unit or of
\* a subprogram read before it.
C28_NoRangeNoLineRecords ==
    (PtrCUState = "live" /\ Len(PtrCU) = Len(session)) =>
        \A i \in 1..Len(PtrCU) :
            (session[i].root = "ok"
                /\ Len(PtrCU[i].PtrSubProgs) = Len(SubprogramDiesOf(session[i])))
            => \A j \in 1..Len(PtrCU[i].PtrSubProgs) :
                  (SubprogramDiesOf(session[i])[j].low_pc = << >>
                      \/ SubprogramDiesOf(session[i])[j].high_pc = << >>)
                  => PtrCU[i].PtrSubProgs[j].PtrLinesSrc = << >>

\* The declaration g, read first in a unit of range [1, 5]: g has
\* LowPC = HighPC = 0 and the rows 1, 2, 3 of the unit as LineRecords
C28_RecordsOfUnitRangeReached ==
    /\ PtrCUState = "live" /\ fault = "none" /\ Len(PtrCU) = 1
    /\ session[1].low_pc = << 1 >> /\ session[1].high_pc = << 5 >>
    /\ Len(PtrCU[1].PtrSubProgs) = 2
    /\ SubprogramDiesOf(session[1])[1].low_pc = << >>
    /\ SubprogramDiesOf(session[1])[1].high_pc = << >>
    /\ PtrCU[1].PtrSubProgs[1].LowPC = 0 /\ PtrCU[1].PtrSubProgs[1].HighPC = 0
    /\ AddressLines(PtrCU[1].PtrSubProgs[1].PtrLinesSrc)
         = << << 1, 10 >>, << 2, 12 >>, << 3, 15 >> >>

\* A reference to a cached line is absent or an index of the line cache
InCache(cu, ref) == ref = NULL \/ Deref(ref) \in 0..(cu.NbLinesLoadSrc - 1)

\* C29: after load every reference to a source line, of a subprogram's
\* declaration line, of a LineRecord and of a used-line row, is absent or is
\* the index (line number - 1) of a line of the cache.
C29_LineReferencesInCache ==
    PtrCUState = "live" =>
        \A i \in 1..Len(PtrCU) :
            /\ \A j \in 1..Len(PtrCU[i].PtrSubProgs) :
                  /\ InCache(PtrCU[i], PtrCU[i].PtrSubProgs[j].PtrLineSrc)
                  /\ \A k \in 1..Len(PtrCU[i].PtrSubProgs[j].PtrLinesSrc) :
                        InCache(PtrCU[i], PtrCU[i].PtrSubProgs[j].PtrLinesSrc[k].PtrLineSrc)
            /\ \A k \in 1..Len(UsedRows(PtrCU[i])) :
                  InCache(PtrCU[i], UsedRows(PtrCU[i])[k].PtrLineSrc)

\* The row (3, 21) of a file of 20 lines, read with _WIN32: the used-line
\* row refers to the place after the last line of the cache, the LineRecord
\* of f for the same row has no reference
C29_LineBeyondFileReached ==
    /\ win32 /\ session \in LineNumberSessions
    /\ PtrCUState = "live" /\ Len(PtrCU) = 1
    /\ PtrCU[1].Status = DWARFSTATUS_OK
    /\ PtrCU[1].NbLinesLoadSrc = 20
    /\ Len(UsedRows(PtrCU[1])) = 3
    /\ UsedRows(PtrCU[1])[3].NumLineSrc = 21
    /\ UsedRows(PtrCU[1])[3].PtrLineSrc = Ptr(20)
    /\ PtrCU[1].PtrSubProgs[1].PtrLinesSrc[3].PtrLineSrc = NULL

\* The session is still open and the unit table has been released: what a
\* DWARFManager_ElfClose whose dwarf_finish fails leaves
HalfReleased == LibDwarf = DW_DLV_OK /\ PtrCUState = "freed"

\* C30: once a DWARFManager_Reset has failed to release the session, no later
\* DWARFManager_Reset or DWARFManager_Close releases the units a second time
\* and no query reads a released unit.
C30_FailedResetReleasesOnce == ~(HalfReleased /\ fault = "use after free")

\* The second DWARFManager_Reset after a load, the first having returned
\* false: DWARFManager_CloseDMI runs again on the released table
C30_SecondReleaseReached ==
    /\ HalfReleased
    /\ fault = "use after free"
    /\ ret.fn = "DWARFManager_Reset"
    /\ resetRun = 3
    /\ loads = 1

====
